---------------------------- MODULE Spec2Model ----------------------------
(***************************************************************************)
(* Model of the article scraper of news2videoYT (src/app/espn_scraper.py): *)
(*   - canonical_image_key / infer_width_from_url  (URL canonicalisation)  *)
(*   - dedupe_keep_largest                         (image deduplication)   *)
(*   - build_session / get_link                    (fetch client)          *)
(*   - parse_espn_article_html and its extractors  (article assembler)     *)
(*                                                                         *)
(* Texts are sequences of tokens (single characters wherever the code      *)
(* inspects characters: digits, "x", "_", ".", ":", "=", "w", "-").        *)
(* A URL is kept in the parsed form urlparse / parse_qs give:              *)
(* [host, path, query], query a sequence of [k, v] pairs.                  *)
(***************************************************************************)
EXTENDS Integers, Sequences, FiniteSets, TLC

VARIABLES
    \* ---- canonical key of one image under resizing edits
    img0,        \* the image variant the run started from
    img,         \* the current variant
    key0,        \* canonical_image_key of the first variant
    key,         \* canonical_image_key of the current variant
    \* ---- dedupe_keep_largest
    dd_pc,       \* "idle" | "loop" | "done"
    dd_in,       \* the candidates as they were passed in
    images,      \* the list passed in (its dicts are written in place)
    dd_i,        \* number of candidates the loop has consumed
    buckets,     \* the dict buckets: <<[key, it]>> in insertion order
    dd_out,      \* the list returned
    \* ---- get_link
    f_pc,        \* "idle" | "loop" | "get" | "returned" | "raised"
    session,     \* the local session: "none" | "first" (the Session the
                 \* first call built) | "fresh" (one a later call built)
    retries,     \* the argument retries of the running call
    attempt,     \* the loop variable
    ua,          \* index in UA_POOL of the session's User-Agent header
    target,      \* what the session.get in flight asks for: "url" | "amp"
    tused,       \* transport-level retries used by the session.get in flight
    gets,        \* the session.get calls the call has made
    response,    \* status of the local response (0: unbound)
    response_amp,\* status of the local response_amp (0: unbound)
    err,         \* the local err: [kind, status]
    result,      \* what the call returned: [url, status]
    sleeps,      \* the time.sleep calls of the call, in 1/100 s
    log,         \* the first MaxLog requests of the call: [target, kind, status]
    netOnly,     \* every request of the call so far failed at network level
    \* ---- parse_espn_article_html
    pr_pc,       \* "idle" | "ready" | "done" | "raised"
    doc,         \* the page: what BeautifulSoup finds in html, and page_url
    record,      \* the dict returned
    imgs_raw,    \* the list get_article_images_with_fallback returned
    strategy,    \* the label get_article_images_with_fallback returned
    exc,         \* the exception raised
    \* ---- generate_comedic_script
    gs_pc,       \* "idle" | "ready" | "llm" | "done"
    article_data,            \* [has, title, paragraphs]; has = FALSE: None
    max_paragraphs,          \* the argument max_paragraphs
    max_chars_per_paragraph, \* the argument max_chars_per_paragraph
    processed_paragraphs,    \* the paragraphs put into the prompt
    llm_calls,   \* the client.chat.completions.create calls made
    script_result,           \* the dict returned: [script, is_too_long]
    \* ---- add_amp
    amp_pc,      \* "idle" | "ready" | "done"
    amp_url,     \* the argument url: [scheme, host, path, query, fragment]
    amp_out,     \* the URL returned
    \* ---- save_images
    sv_pc,       \* "idle" | "ready" | "loop" | "done"
    sv_images,   \* the argument images: the src of each candidate
    sv_i,        \* number of images the loop has consumed
    sv_files,    \* the files of folder: [name, from, complete]
    sv_outcomes, \* how the download of each image consumed ended
    \* ---- run_full_pipeline, run_pipeline_with_upload
    pl_pc,       \* "idle" | "ready" | "loop" | "returned" | "upload" | "end"
    top_headlines,  \* the selected headlines, named by their position
    max_articles,   \* the argument max_articles
    pl_i,        \* number of articles the loop has consumed
    pl_results,  \* results: [scripts, audio_files, video_files, srt_files]
    pl_return,   \* what run_full_pipeline returned: "" | "results" | "None"
    up_k,        \* number of (script, videos) pairs the upload loop consumed
    upload_results  \* the entries of upload_results

keyVars == <<img0, img, key0, key>>

dedupeVars == <<dd_pc, dd_in, images, dd_i, buckets, dd_out>>

fetchVars == <<f_pc, session, retries, attempt, ua, target, tused, gets,
               response, response_amp, err, result, sleeps, log, netOnly>>

parseVars == <<pr_pc, doc, record, imgs_raw, strategy, exc>>

scriptVars == <<gs_pc, article_data, max_paragraphs, max_chars_per_paragraph,
                processed_paragraphs, llm_calls, script_result>>

ampVars == <<amp_pc, amp_url, amp_out>>

saveVars == <<sv_pc, sv_images, sv_i, sv_files, sv_outcomes>>

pipeVars == <<pl_pc, top_headlines, max_articles, pl_i, pl_results, pl_return,
              up_k, upload_results>>

vars == <<keyVars, dedupeVars, fetchVars, parseVars, scriptVars, ampVars,
          saveVars, pipeVars>>

(***************************************************************************)
(* Characters, integers                                                    *)
(***************************************************************************)
Digits == {"0", "1", "2", "3", "4", "5", "6", "7", "8", "9"}

DigitVal(c) ==
    CASE c = "0" -> 0 [] c = "1" -> 1 [] c = "2" -> 2 [] c = "3" -> 3
      [] c = "4" -> 4 [] c = "5" -> 5 [] c = "6" -> 6 [] c = "7" -> 7
      [] c = "8" -> 8 [] c = "9" -> 9

RECURSIVE ToInt(_)
\* int() of a non-empty run of decimal digits
ToInt(s) ==
    IF s = <<>> THEN 0
    ELSE ToInt(SubSeq(s, 1, Len(s) - 1)) * 10 + DigitVal(s[Len(s)])

CharAt(s, i) == IF i >= 1 /\ i <= Len(s) THEN s[i] ELSE "$"

RECURSIVE RunLen(_, _, _)
\* length of the longest run of characters of class cls starting at s[i]
RunLen(s, i, cls) ==
    IF i > Len(s) \/ s[i] \notin cls THEN 0 ELSE 1 + RunLen(s, i + 1, cls)

DigitRun(s, i) == RunLen(s, i, Digits)

(***************************************************************************)
(* canonical_image_key                                                     *)
(***************************************************************************)
\* the quantifier \d{2,4} of both regular expressions
MinDimDigits == 2
MaxDimDigits == 4

DimDigitsNarrow(n) == n >= MinDimDigits /\ n < MaxDimDigits

DimDigits(n) == n >= MinDimDigits /\ n <= MaxDimDigits

\* [\d:x=] of the optional crop group
CropClass == Digits \cup {":", "x", "="}

\* _(\d{2,4}x\d{2,4})(_[\d:x=]+)?(?=\.) tried at position i: the position
\* after the match, or 0 when the expression does not match at i
SizeSuffixEnd(s, i) ==
    LET m == DigitRun(s, i + 1)
        n == DigitRun(s, i + m + 2)
        j == i + m + n + 2
        r == RunLen(s, j + 1, CropClass)
    IN  IF /\ CharAt(s, i) = "_"
           /\ DimDigits(m)
           /\ CharAt(s, i + m + 1) = "x"
           /\ DimDigits(n)
        THEN IF CharAt(s, j) = "_" /\ r >= 1 /\ CharAt(s, j + r + 1) = "."
             THEN j + r + 1
             ELSE IF CharAt(s, j) = "." THEN j ELSE 0
        ELSE 0

RECURSIVE StripFrom(_, _)
StripFrom(s, i) ==
    IF i > Len(s) THEN <<>>
    ELSE LET e == SizeSuffixEnd(s, i)
         IN  IF e > 0 THEN StripFrom(s, e)
             ELSE <<s[i]>> \o StripFrom(s, i + 1)

\* re.sub(pattern, "", base)
StripSizeSuffixes(s) == StripFrom(s, 1)

RECURSIVE QueryValues(_, _)
\* parse_qs(query)[k]: the non-blank values of k, in order
QueryValues(q, k) ==
    IF q = <<>> THEN <<>>
    ELSE (IF q[1].k = k /\ q[1].v # <<>> THEN <<q[1].v>> ELSE <<>>)
         \o QueryValues(Tail(q), k)

DefaultHost == <<"espncdn">>

canonical_image_key(u) ==
    LET imgs == QueryValues(u.query, "img")
        base == IF imgs # <<>> THEN imgs[1] ELSE u.path
        host == IF u.host # <<>> THEN u.host ELSE DefaultHost
    IN  host \o <<":">> \o StripSizeSuffixes(base)

(***************************************************************************)
(* infer_width_from_url                                                    *)
(***************************************************************************)
RECURSIVE QueryText(_)
QueryText(q) ==
    IF q = <<>> THEN <<>>
    ELSE <<q[1].k, "=">> \o q[1].v
         \o (IF Len(q) > 1 THEN <<"&">> ELSE <<>>) \o QueryText(Tail(q))

\* the text of the URL, as SIZE_TOKEN.search reads it
UrlText(u) ==
    (IF u.host # <<>> THEN <<"https://">> \o u.host ELSE <<>>)
    \o u.path
    \o (IF u.query # <<>> THEN <<"?">> \o QueryText(u.query) ELSE <<>>)

\* (\d{2,4})x(\d{2,4}) matches at position i
SizeTokenAt(s, i) ==
    LET m == DigitRun(s, i)
    IN  /\ DimDigits(m)
        /\ CharAt(s, i + m) = "x"
        /\ DigitRun(s, i + m + 1) >= MinDimDigits

RECURSIVE SizeTokenSearch(_, _)
\* SIZE_TOKEN.search: the leftmost position of a match, 0 when there is none
SizeTokenSearch(s, i) ==
    IF i > Len(s) THEN 0
    ELSE IF SizeTokenAt(s, i) THEN i ELSE SizeTokenSearch(s, i + 1)

RECURSIVE FirstDigitRun(_, _)
\* re.findall(r"\d+", s): the first run, <<>> when s holds no digit
FirstDigitRun(s, i) ==
    IF i > Len(s) THEN <<>>
    ELSE IF s[i] \in Digits THEN SubSeq(s, i, i + DigitRun(s, i) - 1)
         ELSE FirstDigitRun(s, i + 1)

infer_width_from_url(u) ==
    LET ws == QueryValues(u.query, "w")
        t  == UrlText(u)
        p  == SizeTokenSearch(t, 1)
    IN  IF ws # <<>>
        THEN \* no digit: findall(...)[0] raises IndexError, swallowed: 0
             IF FirstDigitRun(ws[1], 1) = <<>> THEN 0
             ELSE ToInt(FirstDigitRun(ws[1], 1))
        ELSE IF p > 0 THEN ToInt(SubSeq(t, p, p + DigitRun(t, p) - 1))
             ELSE 0

(***************************************************************************)
(* dedupe_keep_largest                                                     *)
(***************************************************************************)
\* a width: None, or an integer
NoWidth == [k |-> FALSE, v |-> 0]

Width(n) == [k |-> TRUE, v |-> n]

\* x or 0, for a width x
OrZero(w) == IF w.k THEN w.v ELSE 0

\* it.get("width") or infer_width_from_url(it["src"]) or 0
EffectiveWidth(it) ==
    IF OrZero(it.width) # 0 THEN it.width.v ELSE infer_width_from_url(it.src)

RECURSIVE BucketIndex(_, _, _)
\* the position of key in the dict, 0 when buckets.get(key) is None
BucketIndex(b, k, i) ==
    IF i > Len(b) THEN 0
    ELSE IF b[i].key = k THEN i ELSE BucketIndex(b, k, i + 1)

ReplacesOnTie(w, prev) == w >= OrZero(prev.width)

\* (w or 0) > (prev.get("width") or 0)
Replaces(w, prev) == w > OrZero(prev.width)

\* a dict that moved a key to the end when its value is replaced
DedupeStepReinserts(b, it) ==
    LET w    == EffectiveWidth(it)
        k    == canonical_image_key(it.src)
        idx  == BucketIndex(b, k, 1)
        kept == [it EXCEPT !.width = Width(w)]
    IN  IF idx = 0 THEN Append(b, [key |-> k, it |-> kept])
        ELSE IF Replaces(w, b[idx].it)
             THEN Append(SubSeq(b, 1, idx - 1) \o SubSeq(b, idx + 1, Len(b)),
                         [key |-> k, it |-> kept])
        ELSE b

\* the body of the loop, for candidate it
DedupeStep(b, it) ==
    LET w    == EffectiveWidth(it)
        k    == canonical_image_key(it.src)
        idx  == BucketIndex(b, k, 1)
        kept == [it EXCEPT !.width = Width(w)]
    IN  IF idx = 0 THEN Append(b, [key |-> k, it |-> kept])
        ELSE IF Replaces(w, b[idx].it) THEN [b EXCEPT ![idx].it = kept]
        ELSE b

\* whether the loop body stores candidate it (and writes its width)
DedupeStores(b, it) ==
    LET idx == BucketIndex(b, canonical_image_key(it.src), 1)
    IN  idx = 0 \/ Replaces(EffectiveWidth(it), b[idx].it)

BucketValuesReversed(b) == [i \in 1..Len(b) |-> b[Len(b) + 1 - i].it]

\* list(buckets.values())
BucketValues(b) == [i \in 1..Len(b) |-> b[i].it]

RECURSIVE DedupeFold(_, _)
DedupeFold(b, its) ==
    IF its = <<>> THEN b ELSE DedupeFold(DedupeStep(b, its[1]), Tail(its))

dedupe_keep_largest(its) == BucketValues(DedupeFold(<<>>, its))

(***************************************************************************)
(* Image variants: one picture under every resizing edit                   *)
(***************************************************************************)
Dims == {<<"5">>, <<"1", "6">>, <<"6", "4", "0">>, <<"1", "2", "9", "6">>,
         <<"1", "2", "3", "4", "5">>}

Stems == {<<"a">>, <<"r", "1", "2">>,
          <<"p", "_", "1", "2", "x", "3", "4", "_", "5">>}

WidthParams == {<<>>, <<"6", "4", "0">>, <<"a", "u", "t", "o">>}

HeightParams == {<<>>, <<"3", "6", "0">>}

SizeSuffix(sz) ==
    IF sz = <<>> THEN <<>> ELSE <<"_">> \o sz[1] \o <<"x">> \o sz[2]

VariantPath(i) == <<"/">> \o i.stem \o SizeSuffix(i.size) \o <<".", "jpg">>

ResizeQuery(i) ==
    (IF i.w # <<>> THEN <<[k |-> "w", v |-> i.w]>> ELSE <<>>)
    \o (IF i.h # <<>> THEN <<[k |-> "h", v |-> i.h]>> ELSE <<>>)

\* the URL of a variant: a plain image URL, or a combiner URL that carries
\* the image path in its img parameter
VariantUrl(i) ==
    IF i.combiner
    THEN [host |-> i.host, path |-> <<"/", "combiner", "/", "i">>,
          query |-> <<[k |-> "img", v |-> VariantPath(i)]>> \o ResizeQuery(i)]
    ELSE [host |-> i.host, path |-> VariantPath(i), query |-> ResizeQuery(i)]

KeyIdle ==
    /\ img0 = <<>> /\ img = <<>> /\ key0 = <<>> /\ key = <<>>

DedupeIdle ==
    /\ dd_pc = "idle" /\ dd_in = <<>> /\ images = <<>> /\ dd_i = 0
    /\ buckets = <<>> /\ dd_out = <<>>

NoErr == [kind |-> "none", status |-> 0]

NoResult == [url |-> "none", status |-> 0]

FetchIdle ==
    /\ f_pc = "idle" /\ retries = 0 /\ attempt = 0 /\ ua = 1
    /\ target = "url" /\ tused = 0 /\ response = 0 /\ response_amp = 0
    /\ err = NoErr /\ result = NoResult /\ sleeps = <<>> /\ log = <<>>
    /\ netOnly = TRUE /\ session = "none" /\ gets = 0

ParseIdle ==
    /\ pr_pc = "idle" /\ doc = <<>> /\ record = <<>> /\ strategy = ""
    /\ imgs_raw = <<>>
    /\ exc = ""

ScriptIdle ==
    /\ gs_pc = "idle" /\ article_data = <<>> /\ max_paragraphs = 0
    /\ max_chars_per_paragraph = 0 /\ processed_paragraphs = <<>>
    /\ llm_calls = 0 /\ script_result = <<>>

AmpIdle ==
    /\ amp_pc = "idle" /\ amp_url = <<>> /\ amp_out = <<>>

SaveIdle ==
    /\ sv_pc = "idle" /\ sv_images = <<>> /\ sv_i = 0 /\ sv_files = {}
    /\ sv_outcomes = <<>>

NoResults ==
    [scripts |-> <<>>, audio_files |-> <<>>, video_files |-> <<>>,
     srt_files |-> <<>>]

PipeIdle ==
    /\ pl_pc = "idle" /\ top_headlines = <<>> /\ max_articles = 0
    /\ pl_i = 0 /\ pl_results = NoResults /\ pl_return = "" /\ up_k = 0
    /\ upload_results = <<>>

InitKey ==
    /\ DedupeIdle
    /\ FetchIdle
    /\ ParseIdle
    /\ ScriptIdle
    /\ AmpIdle
    /\ SaveIdle
    /\ PipeIdle
    /\ \E st \in Stems, hs \in {<<>>, <<"a.espncdn.com">>}, cb \in BOOLEAN :
          img0 = [host |-> hs, stem |-> st, size |-> <<>>, combiner |-> cb,
                  w |-> <<>>, h |-> <<>>]
    /\ img = img0
    /\ key0 = canonical_image_key(VariantUrl(img0))
    /\ key = key0

\* a resizing query parameter is added or changed
SetResizeParam ==
    /\ \/ \E v \in WidthParams \ {<<>>} : img' = [img EXCEPT !.w = v]
       \/ \E v \in HeightParams \ {<<>>} : img' = [img EXCEPT !.h = v]
    /\ key' = canonical_image_key(VariantUrl(img'))
    /\ UNCHANGED <<img0, key0, dedupeVars, fetchVars, parseVars, scriptVars,
                   ampVars, saveVars, pipeVars>>

\* a resizing query parameter is removed
RemoveResizeParam ==
    /\ \/ img.w # <<>> /\ img' = [img EXCEPT !.w = <<>>]
       \/ img.h # <<>> /\ img' = [img EXCEPT !.h = <<>>]
    /\ key' = canonical_image_key(VariantUrl(img'))
    /\ UNCHANGED <<img0, key0, dedupeVars, fetchVars, parseVars, scriptVars,
                   ampVars, saveVars, pipeVars>>

\* the _WxH suffix before the extension is added or changed
SetSizeSuffix ==
    /\ \E W \in Dims, H \in Dims : img' = [img EXCEPT !.size = <<W, H>>]
    /\ key' = canonical_image_key(VariantUrl(img'))
    /\ UNCHANGED <<img0, key0, dedupeVars, fetchVars, parseVars, scriptVars,
                   ampVars, saveVars, pipeVars>>

\* the _WxH suffix before the extension is removed
RemoveSizeSuffix ==
    /\ img.size # <<>>
    /\ img' = [img EXCEPT !.size = <<>>]
    /\ key' = canonical_image_key(VariantUrl(img'))
    /\ UNCHANGED <<img0, key0, dedupeVars, fetchVars, parseVars, scriptVars,
                   ampVars, saveVars, pipeVars>>

NextKey ==
    \/ SetResizeParam
    \/ RemoveResizeParam
    \/ SetSizeSuffix
    \/ RemoveSizeSuffix

SpecKey == InitKey /\ [][NextKey]_vars

(***************************************************************************)
(* Claims about canonical_image_key                                        *)
(***************************************************************************)
\* C2 as stated: the canonical key of an image does not change when only
\* resizing query parameters or only the _WxH suffix before the extension
\* are added, removed or changed, for every width W and height H.
C2_KeyInvariantUnderResizing == key = key0

(***************************************************************************)
(* dedupe_keep_largest, run candidate by candidate                         *)
(***************************************************************************)
MaxImages == 3

CdnUrl(path, query) ==
    [host |-> <<"a.espncdn.com">>, path |-> path, query |-> query]

DedupeUrls ==
    { CdnUrl(<<"/", "a", "_", "6", "4", "0", "x", "3", "6", "0", ".", "jpg">>,
             <<>>),
      CdnUrl(<<"/", "a", "_", "1", "2", "8", "0", "x", "7", "2", "0", ".",
               "jpg">>, <<>>),
      CdnUrl(<<"/", "a", ".", "jpg">>,
             <<[k |-> "w", v |-> <<"6", "4", "0">>]>>),
      CdnUrl(<<"/", "a", "_", "6", "4", "0", "x", "3", "6", "0", ".", "jpg">>,
             <<[k |-> "w", v |-> <<"a", "u", "t", "o">>]>>),
      CdnUrl(<<"/", "b", ".", "jpg">>, <<>>) }

DeclaredWidths == {NoWidth, Width(0), Width(1280)}

\* the alt text of the i-th candidate is i: it tells the input objects apart
InitDedupe ==
    /\ KeyIdle
    /\ FetchIdle
    /\ ParseIdle
    /\ ScriptIdle
    /\ AmpIdle
    /\ SaveIdle
    /\ PipeIdle
    /\ \E n \in 0..MaxImages :
         \E us \in [1..n -> DedupeUrls], ws \in [1..n -> DeclaredWidths] :
            dd_in = [i \in 1..n |->
                       [src |-> us[i], width |-> ws[i], alt |-> i,
                        caption |-> <<>>]]
    /\ images = dd_in
    /\ dd_pc = "loop"
    /\ dd_i = 0
    /\ buckets = <<>>
    /\ dd_out = <<>>

\* one iteration of: for it in images
DedupeIterate ==
    /\ dd_pc = "loop"
    /\ dd_i < Len(images)
    /\ LET it == images[dd_i + 1]
       IN  /\ buckets' = DedupeStep(buckets, it)
           /\ images' = IF DedupeStores(buckets, it)
                        THEN [images EXCEPT
                                ![dd_i + 1].width = Width(EffectiveWidth(it))]
                        ELSE images
    /\ dd_i' = dd_i + 1
    /\ UNCHANGED <<dd_pc, dd_in, dd_out, keyVars, fetchVars, parseVars,
                   scriptVars, ampVars, saveVars, pipeVars>>

\* return list(buckets.values())
DedupeReturn ==
    /\ dd_pc = "loop"
    /\ dd_i = Len(images)
    /\ dd_out' = BucketValues(buckets)
    /\ dd_pc' = "done"
    /\ UNCHANGED <<dd_in, images, dd_i, buckets, keyVars, fetchVars, parseVars,
                   scriptVars, ampVars, saveVars, pipeVars>>

NextDedupe ==
    \/ DedupeIterate
    \/ DedupeReturn

SpecDedupe == InitDedupe /\ [][NextDedupe]_vars

(***************************************************************************)
(* C1: dedupe_keep_largest returns one candidate per canonical key, the    *)
(* widest of its group, the first of the widest.                           *)
(***************************************************************************)
KeyGroup(k) == {i \in 1..Len(dd_in) : canonical_image_key(dd_in[i].src) = k}

MaxOf(S) == CHOOSE m \in S : \A n \in S : n <= m

MinOf(S) == CHOOSE m \in S : \A n \in S : m <= n

\* the width the claim gives a candidate: its declared width, or the width
\* inferred from its URL when the declared width is unknown
ClaimedWidth(c) == IF c.width.k THEN c.width.v ELSE infer_width_from_url(c.src)

\* the same, a declared width of 0 counting as unknown
NonZeroWidth(c) ==
    IF c.width.k /\ c.width.v # 0 THEN c.width.v
    ELSE infer_width_from_url(c.src)

OnePerKey ==
    /\ \A i \in 1..Len(dd_in) :
          Cardinality({j \in 1..Len(dd_out) :
              canonical_image_key(dd_out[j].src)
                  = canonical_image_key(dd_in[i].src)}) = 1
    /\ \A j \in 1..Len(dd_out) :
          KeyGroup(canonical_image_key(dd_out[j].src)) # {}

\* C1 as stated: when dedupe_keep_largest has returned, there is exactly one
\* returned candidate per canonical key of the input, its width is the
\* largest width (declared, or inferred when the declared width is unknown)
\* of the input candidates with that key, and it is the first input
\* candidate with that width.
C1_LargestPerKey_Original ==
    dd_pc = "done" =>
        /\ OnePerKey
        /\ \A j \in 1..Len(dd_out) :
             LET g  == KeyGroup(canonical_image_key(dd_out[j].src))
                 mx == MaxOf({ClaimedWidth(dd_in[i]) : i \in g})
                 f  == MinOf({i \in g : ClaimedWidth(dd_in[i]) = mx})
             IN  /\ dd_out[j].width = Width(mx)
                 /\ dd_out[j].alt = f
                 /\ dd_out[j].src = dd_in[f].src

\* C1 amended: the same with the width of a candidate being its declared
\* width when that is known and not 0, and the width inferred from its URL
\* otherwise: exactly one returned candidate per canonical key, carrying the
\* largest such width of its group, and being the first input candidate of
\* the group with that width.
C1_LargestPerKey ==
    dd_pc = "done" =>
        /\ OnePerKey
        /\ \A j \in 1..Len(dd_out) :
             LET g  == KeyGroup(canonical_image_key(dd_out[j].src))
                 mx == MaxOf({NonZeroWidth(dd_in[i]) : i \in g})
                 f  == MinOf({i \in g : NonZeroWidth(dd_in[i]) = mx})
             IN  /\ dd_out[j].width = Width(mx)
                 /\ dd_out[j].alt = f
                 /\ dd_out[j].src = dd_in[f].src

\* a group of three candidates, two of them tied at the largest width and
\* the first of the group smaller, has been deduplicated to one candidate
C1_Witness ==
    /\ dd_pc = "done"
    /\ Len(dd_in) = 3
    /\ Len(dd_out) = 1
    /\ NonZeroWidth(dd_in[1]) < NonZeroWidth(dd_in[2])
    /\ NonZeroWidth(dd_in[2]) = NonZeroWidth(dd_in[3])
    /\ dd_in[2].src # dd_in[3].src

(***************************************************************************)
(* build_session / get_link                                                *)
(*                                                                         *)
(* One step per request on the wire.  session.get goes through the         *)
(* adapter's Retry(total=3, status_forcelist=..., raise_on_status=False):  *)
(* a network failure or a status of the forcelist is retried while the     *)
(* budget lasts; with the budget used up the status is handed to get_link  *)
(* as a response and the network failure is raised.                        *)
(***************************************************************************)
MaxRetries == 2
MaxLog == 4

\* Retry(total=3)
RetryTotal == 3
\* backoff=0.75, in 1/100 s
Backoff == 75
\* len(UA_POOL)
UaPoolSize == 3

STATUS_FORCELIST == {429, 500, 502, 503, 504}

\* the status codes the server answers with
Statuses == {200, 304, 403, 404, 503}

\* what one request on the wire ends with
Outcomes ==
    {[kind |-> "status", status |-> st] : st \in Statuses}
    \cup {[kind |-> "neterr", status |-> 0]}

RECURSIVE Pow2(_)
Pow2(n) == IF n = 0 THEN 1 ELSE 2 * Pow2(n - 1)

\* Response.raise_for_status raises HTTPError
RaisesForStatus(st) == st >= 400 /\ st < 600

OkInverted(st) == RaisesForStatus(st)

\* Response.ok
Ok(st) == ~RaisesForStatus(st)

BudgetLeftShort(t) == t < RetryTotal - 1

\* Retry.increment does not exhaust the budget: another request is sent
BudgetLeft(t) == t < RetryTotal

\* Retry.is_retry, or a connection / read error, which Retry counts as well
Retryable(o) == o.kind = "neterr" \/ o.status \in STATUS_FORCELIST

SleepsAfterLast(a, r) == a <= r

\* if attempt < retries
SleepsBeforeNext(a, r) == a < r

Logged(o) ==
    IF Len(log) < MaxLog
    THEN Append(log, [target |-> target, kind |-> o.kind, status |-> o.status])
    ELSE log

\* o is handed to get_link: not retried by the transport layer
Delivered(o) == ~Retryable(o) \/ ~BudgetLeft(tused)

\* the loop runs once more than range(retries + 1)
ExceptOneMore(e) ==
    /\ err' = e
    /\ sleeps' = IF SleepsBeforeNext(attempt, retries)
                 THEN Append(sleeps, Backoff * Pow2(attempt))
                 ELSE sleeps
    /\ IF attempt <= retries
       THEN f_pc' = "loop" /\ attempt' = attempt + 1
       ELSE f_pc' = "raised" /\ attempt' = attempt
    /\ result' = result

\* except requests.RequestException as e: ... and the loop's next step
Except(e) ==
    /\ err' = e
    /\ sleeps' = IF SleepsBeforeNext(attempt, retries)
                 THEN Append(sleeps, Backoff * Pow2(attempt))
                 ELSE sleeps
    /\ IF attempt < retries
       THEN f_pc' = "loop" /\ attempt' = attempt + 1
       ELSE f_pc' = "raised" /\ attempt' = attempt
    /\ result' = result

InitFetch ==
    /\ KeyIdle
    /\ DedupeIdle
    /\ FetchIdle
    /\ ParseIdle
    /\ ScriptIdle
    /\ AmpIdle
    /\ SaveIdle
    /\ PipeIdle

\* get_link(url, retries=r): err = None, session = build_session(), a new
\* requests.Session whose User-Agent is that of HEADERS
Call ==
    /\ f_pc \in {"idle", "returned", "raised"}
    /\ \E r \in 0..MaxRetries : retries' = r
    /\ f_pc' = "loop"
    /\ attempt' = 0
    /\ err' = NoErr
    /\ result' = NoResult
    /\ response' = 0
    /\ response_amp' = 0
    /\ sleeps' = <<>>
    /\ log' = <<>>
    /\ netOnly' = TRUE
    /\ target' = "url"
    /\ tused' = 0
    /\ gets' = 0
    /\ session' = IF session = "none" THEN "first" ELSE "fresh"
    /\ ua' = 1
    /\ UNCHANGED <<keyVars, dedupeVars, parseVars, scriptVars,
                   ampVars, saveVars, pipeVars>>

\* the head of the loop body: the User-Agent is drawn, session.get(url) starts
BeginAttempt ==
    /\ f_pc = "loop"
    /\ \E i \in 1..UaPoolSize : ua' = i
    /\ f_pc' = "get"
    /\ target' = "url"
    /\ tused' = 0
    /\ gets' = gets + 1
    /\ UNCHANGED <<session, retries, attempt, response, response_amp, err,
                   result, sleeps, log, netOnly, keyVars, dedupeVars,
                   parseVars, scriptVars, ampVars, saveVars, pipeVars>>

\* the transport layer sends the request again
TransportRetry ==
    /\ f_pc = "get"
    /\ \E o \in Outcomes :
         /\ Retryable(o)
         /\ BudgetLeft(tused)
         /\ log' = Logged(o)
         /\ netOnly' = (netOnly /\ o.kind = "neterr")
    /\ tused' = tused + 1
    /\ UNCHANGED <<gets, f_pc, session, retries, attempt, ua, target,
                   response,
                   response_amp, err, result, sleeps, keyVars, dedupeVars,
                   parseVars, scriptVars, ampVars, saveVars, pipeVars>>

\* session.get raises: the network failed and the transport budget is used up
NetworkError ==
    /\ f_pc = "get"
    /\ LET o == [kind |-> "neterr", status |-> 0]
       IN  /\ Delivered(o)
           /\ log' = Logged(o)
    /\ Except([kind |-> "net", status |-> 0])
    /\ UNCHANGED <<gets, session, retries, ua, target, tused, response,
                   response_amp, netOnly, keyVars, dedupeVars, parseVars,
                   scriptVars, ampVars, saveVars, pipeVars>>

\* response = session.get(url) has status 403: session.get(amp_url) starts
ResponseBlocked ==
    /\ f_pc = "get"
    /\ target = "url"
    /\ LET o == [kind |-> "status", status |-> 403]
       IN  log' = Logged(o)
    /\ response' = 403
    /\ target' = "amp"
    /\ tused' = 0
    /\ gets' = gets + 1
    /\ netOnly' = FALSE
    /\ UNCHANGED <<f_pc, session, retries, attempt, ua, response_amp, err,
                   result, sleeps, keyVars, dedupeVars, parseVars, scriptVars,
                   ampVars, saveVars, pipeVars>>

\* response = session.get(url), not a 403: raise_for_status, return response
ResponseUrl ==
    /\ f_pc = "get"
    /\ target = "url"
    /\ \E o \in Outcomes :
         /\ o.kind = "status"
         /\ o.status # 403
         /\ Delivered(o)
         /\ log' = Logged(o)
         /\ response' = o.status
         /\ IF RaisesForStatus(o.status)
            THEN Except([kind |-> "http", status |-> o.status])
            ELSE /\ f_pc' = "returned"
                 /\ result' = [url |-> "url", status |-> o.status]
                 /\ UNCHANGED <<err, sleeps, attempt>>
    /\ netOnly' = FALSE
    /\ UNCHANGED <<gets, session, retries, ua, target, tused,
                   response_amp,
                   keyVars, dedupeVars, parseVars, scriptVars,
                   ampVars, saveVars, pipeVars>>

\* response_amp = session.get(amp_url): returned if ok, else the 403 of
\* response is raised
ResponseAmp ==
    /\ f_pc = "get"
    /\ target = "amp"
    /\ \E o \in Outcomes :
         /\ o.kind = "status"
         /\ Delivered(o)
         /\ log' = Logged(o)
         /\ response_amp' = o.status
         /\ IF Ok(o.status)
            THEN /\ f_pc' = "returned"
                 /\ result' = [url |-> "amp", status |-> o.status]
                 /\ UNCHANGED <<err, sleeps, attempt>>
            ELSE Except([kind |-> "http", status |-> response])
    /\ netOnly' = FALSE
    /\ UNCHANGED <<gets, session, retries, ua, target, tused,
                   response,
                   keyVars, dedupeVars, parseVars, scriptVars,
                   ampVars, saveVars, pipeVars>>

NextFetch ==
    \/ Call
    \/ BeginAttempt
    \/ TransportRetry
    \/ NetworkError
    \/ ResponseBlocked
    \/ ResponseUrl
    \/ ResponseAmp

SpecFetch == InitFetch /\ [][NextFetch]_vars

(***************************************************************************)
(* Claims about get_link                                                   *)
(***************************************************************************)
Success2xx == 200..299

LogEntry(t, st) == [target |-> t, kind |-> "status", status |-> st]

\* C3: whenever the response to the URL has status 403 and the response to
\* the AMP variant that followed it is successful (2xx), get_link has
\* returned, and what it returned is the AMP response; no error is raised.
C3_AmpResponseReturned ==
    (f_pc # "idle" /\ response = 403 /\ response_amp \in Success2xx) =>
        /\ f_pc = "returned"
        /\ result = [url |-> "amp", status |-> response_amp]

\* a call has returned the AMP response after a 403
C3_Witness ==
    /\ f_pc = "returned"
    /\ response = 403
    /\ response_amp = 200
    /\ result.url = "amp"

\* the requests of the call so far are those of the scenario of C4: the
\* first three answered 503, the fourth answered 200
FollowsThree503Then200 ==
    /\ f_pc \notin {"idle", "loop"} \/ log # <<>>
    /\ Len(log) <= 4
    /\ \A i \in 1..Len(log) :
          log[i] = LogEntry("url", IF i <= 3 THEN 503 ELSE 200)

\* C4: while the server answers the first three requests with 503 and the
\* fourth with 200, get_link raises no error, and with the fourth answer it
\* has returned the 200 response.
C4_ThreeTransportRetriesThenSuccess ==
    FollowsThree503Then200 =>
        /\ f_pc # "raised"
        /\ Len(log) = 4 =>
              (f_pc = "returned" /\ result = [url |-> "url", status |-> 200])

\* the fourth request was answered 200 after three 503
C4_Witness ==
    /\ FollowsThree503Then200
    /\ Len(log) = 4
    /\ f_pc = "returned"

\* C5 as stated: once the first four requests of the call were answered
\* 503, get_link does not return a response, and the error it raises is an
\* HTTP error carrying 503.
C5_FourTimes503Raises ==
    (Len(log) >= 4 /\ \A i \in 1..4 : log[i] = LogEntry("url", 503)) =>
        /\ f_pc # "returned"
        /\ f_pc = "raised" => err = [kind |-> "http", status |-> 503]

\* C6 as stated: a returned response has a status in 200-299, and a call
\* that ends on a response with any other status raises an HTTP error
\* carrying the status of that response.
C6_ReturnsOnly2xx ==
    /\ f_pc = "returned" => result.status \in Success2xx
    /\ (f_pc = "raised" /\ err.kind = "http") =>
          (err.status = response /\ response \notin Success2xx)

\* C7: while every request of the call has failed at the network level,
\* get_link has not returned, it has slept backoff * 2^a after each attempt a
\* that was followed by another one and at no other time, and when it raises
\* it has made retries + 1 attempts and raises the network error.
C7_NetworkFailureRetries ==
    (netOnly /\ f_pc # "idle") =>
        /\ f_pc # "returned"
        /\ sleeps = [i \in 1..attempt |-> Backoff * Pow2(i - 1)]
        /\ f_pc = "raised" =>
              /\ attempt + 1 = retries + 1
              /\ Len(sleeps) = retries
              /\ err = [kind |-> "net", status |-> 0]

\* a call with retries = 2 has raised after network failures only
C7_Witness ==
    /\ f_pc = "raised"
    /\ netOnly
    /\ retries = 2
    /\ sleeps = <<75, 150>>

\* the first response of the call was a 403 and the response to the AMP
\* variant that followed it was an error status
InitialBlockedAmpFailed ==
    /\ Len(log) >= 2
    /\ log[1] = LogEntry("url", 403)
    /\ log[2].target = "amp"
    /\ log[2].kind = "status"
    /\ RaisesForStatus(log[2].status)
    /\ log[2].status \notin STATUS_FORCELIST

\* C8 as stated: when the initial response is a 403 and the AMP response is
\* not successful, the error get_link finally raises is the HTTP error 403.
C8_Original403Raised ==
    (InitialBlockedAmpFailed /\ f_pc = "raised") =>
        err = [kind |-> "http", status |-> 403]

(***************************************************************************)
(* parse_espn_article_html: structured data, meta tags, date               *)
(*                                                                         *)
(* An optional value is [t, s]: t = "none" (None / absent), "str" (a       *)
(* string, s its tokens) or "other" (a true value that is no string: a     *)
(* number, a list, an object).                                             *)
(***************************************************************************)
None == [t |-> "none", s |-> <<>>]

Str(x) == [t |-> "str", s |-> x]

Other(x) == [t |-> "other", s |-> x]

\* Python's truth value
Truthy(v) == v.t = "other" \/ (v.t = "str" /\ v.s # <<>>)

\* {}: what parse_jsonld returns when it finds no article
EmptyItem ==
    [obj |-> TRUE, type |-> "", headline |-> None, datePublished |-> None,
     author |-> [t |-> "none", name |-> None, entries |-> <<>>]]

ArticleTypesOnlyNews == {"NewsArticle"}

\* it.get("@type") in ("NewsArticle", "Article")
ArticleTypes == {"NewsArticle", "Article"}

RECURSIVE FirstArticleItem(_)
\* the loop over the items of one block: the first Article item; an item
\* that is no object raises in it.get, which ends the block
FirstArticleItem(items) ==
    IF items = <<>> THEN EmptyItem
    ELSE IF ~items[1].obj THEN EmptyItem
    ELSE IF items[1].type \in ArticleTypes THEN items[1]
    ELSE FirstArticleItem(Tail(items))

RECURSIVE parse_jsonld(_)
\* ld is the sequence of script[type=application/ld+json] blocks
parse_jsonld(ld) ==
    IF ld = <<>> THEN EmptyItem
    ELSE LET it == IF ld[1].valid THEN FirstArticleItem(ld[1].items)
                   ELSE EmptyItem
         IN  IF it # EmptyItem THEN it ELSE parse_jsonld(Tail(ld))

\* ld["author"][0].get("name") on a first entry that is no object
AuthorRaises(ld) ==
    /\ ld.author.t = "list"
    /\ ld.author.entries # <<>>
    /\ ~ld.author.entries[1].obj

\* lines 306-310
AuthorOf(ld) ==
    IF ld.author.t = "obj" THEN ld.author.name
    ELSE IF ld.author.t = "list" /\ ld.author.entries # <<>>
         THEN ld.author.entries[1].name
    ELSE None

\* soup.find("meta", property=...): x["content"] if x and x.get("content")
MetaContent(metas) ==
    IF metas # <<>> /\ Truthy(metas[1]) THEN metas[1] ELSE None

OrElsePrefersSecond(a, b) == IF Truthy(b) THEN b ELSE a

\* a if a else b
OrElse(a, b) == IF Truthy(a) THEN a ELSE b

\* str.replace("Z", "+00:00")
ReplaceZ(d) == [i \in 1..Len(d) |-> IF d[i] = "Z" THEN "+00:00" ELSE d[i]]

DateTokens == {"2024-01-05"}

TimeTokens == {"12:00:00", "12:00"}

OffsetTokens == {"+00:00", "-05:00"}

\* datetime.fromisoformat accepts the string
IsoParses(d) ==
    /\ Len(d) \in {1, 3, 4}
    /\ d[1] \in DateTokens
    /\ Len(d) >= 3 => (d[2] \in {"T", " "} /\ d[3] \in TimeTokens)
    /\ Len(d) = 4 => d[4] \in OffsetTokens

FullTime(t) == IF t = "12:00" THEN "12:00:00" ELSE t

\* datetime.isoformat of the parsed value
IsoFormat(d) ==
    <<d[1], "T", IF Len(d) >= 3 THEN FullTime(d[3]) ELSE "00:00:00">>
    \o (IF Len(d) = 4 THEN <<d[4]>> ELSE <<>>)

NormalizeDateKeepsZ(v) ==
    IF ~Truthy(v) THEN None
    ELSE IF v.t = "str" /\ IsoParses(v.s) THEN Str(IsoFormat(v.s))
    ELSE v

\* lines 338-343
NormalizeDate(v) ==
    IF ~Truthy(v) THEN None
    ELSE IF v.t = "str" /\ IsoParses(ReplaceZ(v.s))
         THEN Str(IsoFormat(ReplaceZ(v.s)))
    ELSE v

(***************************************************************************)
(* parse_espn_article_html: body                                           *)
(***************************************************************************)
\* str.lower, token by token
LowerToken(t) ==
    CASE t = "Editor" -> "editor"
      [] t = "EDITOR" -> "editor"
      [] t = "s Note" -> "s note"
      [] t = "S NOTE" -> "s note"
      [] OTHER -> t

Lower(x) == [i \in 1..Len(x) |-> LowerToken(x[i])]

StartsWith(x, pre) == Len(x) >= Len(pre) /\ SubSeq(x, 1, Len(pre)) = pre

EditorsNoteStraightOnly == {<<"editor", "'", "s note">>}

\* "U+2019" stands for the right single quotation mark
EditorsNoteMarkers ==
    {<<"editor", "U+2019", "s note">>, <<"editor", "'", "s note">>}

RECURSIVE select_last_element(_, _)
select_last_element(matches, i) ==
    IF i > Len(matches) THEN [found |-> FALSE, texts |-> <<>>]
    ELSE LET later == select_last_element(matches, i + 1)
         IN  IF later.found THEN later ELSE matches[i]

RECURSIVE select_first_element(_, _)
\* matches[i]: what soup.select_one gives for the i-th selector
select_first_element(matches, i) ==
    IF i > Len(matches) THEN [found |-> FALSE, texts |-> <<>>]
    ELSE IF matches[i].found THEN matches[i]
    ELSE select_first_element(matches, i + 1)

RECURSIVE KeptParagraphs(_)
\* lines 330-333 over the texts of the p and li elements
KeptParagraphs(texts) ==
    IF texts = <<>> THEN <<>>
    ELSE (IF /\ texts[1] # <<>>
             /\ \A mk \in EditorsNoteMarkers : ~StartsWith(Lower(texts[1]), mk)
          THEN <<texts[1]>> ELSE <<>>)
         \o KeptParagraphs(Tail(texts))

ParagraphsOf(matches) ==
    LET body == select_first_element(matches, 1)
    IN  IF body.found THEN KeptParagraphs(body.texts) ELSE <<>>

(***************************************************************************)
(* Image discovery                                                         *)
(*                                                                         *)
(* A reference as written in the markup is [kind, host, path, query] with  *)
(* kind "abs" (https://host/path), "protorel" (//host/path) or "rel" (a    *)
(* path relative to the page).  A srcset attribute is [set, parts]: set    *)
(* tells that the attribute is present and not the empty string, parts     *)
(* are its comma-separated parts, each [blank, url, desc] (desc: the       *)
(* whitespace-separated words after the URL).                              *)
(***************************************************************************)
Range(f) == {f[i] : i \in DOMAIN f}

\* urlsplit raises ValueError("Invalid IPv6 URL")
UrlSplitRaises(host) == ("[" \in Range(host)) # ("]" \in Range(host))

\* get_abs_url, for a reference that is not empty
get_abs_url(u, base) ==
    IF u.kind = "rel"
    THEN [host |-> base.host, path |-> base.dir \o u.path, query |-> u.query]
    ELSE [host |-> u.host, path |-> u.path, query |-> u.query]

\* int(text) of parse_srcset: None when int raises
IntOrNone(x) ==
    IF x # <<>> /\ \A i \in 1..Len(x) : x[i] \in Digits
    THEN Width(ToInt(x))
    ELSE IF /\ Len(x) >= 2
            /\ x[1] \in {"-", "+"}
            /\ \A i \in 2..Len(x) : x[i] \in Digits
         THEN Width((IF x[1] = "-" THEN -1 ELSE 1) * ToInt(Tail(x)))
    ELSE NoWidth

\* lines 128-133
DescriptorWidth(desc) ==
    IF desc # <<>> /\ desc[1] # <<>> /\ desc[1][Len(desc[1])] = "w"
    THEN IntOrNone(SubSeq(desc[1], 1, Len(desc[1]) - 1))
    ELSE NoWidth

RECURSIVE SrcsetParts(_)
SrcsetParts(parts) ==
    IF parts = <<>> THEN <<>>
    ELSE (IF parts[1].blank THEN <<>>
          ELSE <<[url |-> parts[1].url,
                  width |-> DescriptorWidth(parts[1].desc)]>>)
         \o SrcsetParts(Tail(parts))

\* parse_srcset(el.get("srcset") or el.get("data-srcset", ""))
parse_srcset(el) ==
    IF el.srcset.set THEN SrcsetParts(el.srcset.parts)
    ELSE IF el.dataSrcset.set THEN SrcsetParts(el.dataSrcset.parts)
    ELSE <<>>

SrcsetCandidates(el, alt, caption, base) ==
    LET ps == parse_srcset(el)
    IN  [i \in 1..Len(ps) |->
            [src |-> get_abs_url(ps[i].url, base), width |-> ps[i].width,
             alt |-> alt, caption |-> caption]]

RECURSIVE SourceCandidates(_, _, _, _)
SourceCandidates(sources, alt, caption, base) ==
    IF sources = <<>> THEN <<>>
    ELSE SrcsetCandidates(sources[1], alt, caption, base)
         \o SourceCandidates(Tail(sources), alt, caption, base)

FigureCandidatesImgFirst(fig, caption, base) ==
    LET alt == IF fig.img.has THEN fig.img.alt ELSE None
    IN  (IF fig.img.has
         THEN SrcsetCandidates(fig.img, alt, caption, base)
              \o (IF fig.img.src.has
                  THEN <<[src |-> get_abs_url(fig.img.src.ref, base),
                          width |-> NoWidth, alt |-> alt,
                          caption |-> caption]>>
                  ELSE <<>>)
         ELSE <<>>)
        \o SourceCandidates(fig.sources, alt, caption, base)

\* the candidates of one figure: lines 155-183 and 246-274
FigureCandidates(fig, caption, base) ==
    LET alt == IF fig.img.has THEN fig.img.alt ELSE None
    IN  SourceCandidates(fig.sources, alt, caption, base)
        \o (IF fig.img.has
            THEN SrcsetCandidates(fig.img, alt, caption, base)
                 \o (IF fig.img.src.has
                     THEN <<[src |-> get_abs_url(fig.img.src.ref, base),
                             width |-> NoWidth, alt |-> alt,
                             caption |-> caption]>>
                     ELSE <<>>)
            ELSE <<>>)

RECURSIVE RemoveDuplicatesKeepsLast(_, _)
RemoveDuplicatesKeepsLast(results, seen) ==
    IF results = <<>> THEN <<>>
    ELSE IF \E i \in 2..Len(results) : results[i].src = results[1].src
         THEN RemoveDuplicatesKeepsLast(Tail(results), seen)
    ELSE <<results[1]>> \o RemoveDuplicatesKeepsLast(Tail(results), seen)

RECURSIVE RemoveDuplicates(_, _)
\* lines 185-192: the first candidate of every src
RemoveDuplicates(results, seen) ==
    IF results = <<>> THEN <<>>
    ELSE IF results[1].src \in seen THEN RemoveDuplicates(Tail(results), seen)
    ELSE <<results[1]>>
         \o RemoveDuplicates(Tail(results), seen \cup {results[1].src})

RECURSIVE InlineResults(_, _)
\* the loop over soup.select("aside.inline.inline-photo")
InlineResults(blocks, base) ==
    IF blocks = <<>> THEN <<>>
    ELSE (IF blocks[1].aside /\ blocks[1].figs # <<>>
          THEN FigureCandidates(blocks[1].figs[1], blocks[1].figs[1].caption,
                                base)
          ELSE <<>>)
         \o InlineResults(Tail(blocks), base)

extract_inline_photo_images(blocks, base) ==
    RemoveDuplicates(InlineResults(blocks, base), {})

RECURSIVE AllFigures(_)
\* soup.find_all("figure"), in document order
AllFigures(blocks) ==
    IF blocks = <<>> THEN <<>> ELSE blocks[1].figs \o AllFigures(Tail(blocks))

RECURSIVE CaptionedResults(_, _)
CaptionedResults(figs, base) ==
    IF figs = <<>> THEN <<>>
    ELSE (IF Truthy(figs[1].caption)
          THEN FigureCandidates(figs[1], figs[1].caption, base)
          ELSE <<>>)
         \o CaptionedResults(Tail(figs), base)

extract_captioned_images(blocks, base) ==
    RemoveDuplicates(CaptionedResults(AllFigures(blocks), base), {})

\* line 289 put in: the captioned figures always added in front
get_article_images_merged(blocks, base) ==
    LET a == extract_captioned_images(blocks, base)
                 \o extract_inline_photo_images(blocks, base)
    IN  IF a # <<>> THEN [imgs |-> a, label |-> "inline + captioned"]
        ELSE [imgs |-> <<>>, label |-> "none"]

get_article_images_with_fallback(blocks, base) ==
    LET a == extract_inline_photo_images(blocks, base)
        b == extract_captioned_images(blocks, base)
    IN  IF a # <<>> THEN [imgs |-> a, label |-> "inline + captioned"]
        ELSE IF b # <<>> THEN [imgs |-> b, label |-> "captioned"]
        ELSE [imgs |-> <<>>, label |-> "none"]

\* urljoin (in get_abs_url) or urlparse (in canonical_image_key) raises for
\* a candidate of a strategy that runs
ImagesRaise(blocks, base) ==
    LET a   == InlineResults(blocks, base)
        b   == CaptionedResults(AllFigures(blocks), base)
        run == IF a # <<>> THEN a ELSE b
    IN  \E i \in 1..Len(run) : UrlSplitRaises(run[i].src.host)

(***************************************************************************)
(* parse_espn_article_html                                                 *)
(***************************************************************************)
MaxLdBlocks == 2

NoAuthor == [t |-> "none", name |-> None, entries |-> <<>>]

ScenarioDate == <<"2024-01-05", "T", "12:00:00", "Z">>

NewsItem ==
    [obj |-> TRUE, type |-> "NewsArticle",
     headline |-> Str(<<"Team Wins Big">>),
     datePublished |-> Str(ScenarioDate), author |-> NoAuthor]

\* no headline, a number as date, the author an object
ArticleItem ==
    [obj |-> TRUE, type |-> "Article", headline |-> None,
     datePublished |-> Other(<<"20240105">>),
     author |-> [t |-> "obj", name |-> Str(<<"Jane Doe">>),
                 entries |-> <<>>]]

\* an empty headline, a date that is no ISO date, "author": ["Jane Doe"]
StringAuthorsItem ==
    [obj |-> TRUE, type |-> "NewsArticle", headline |-> Str(<<>>),
     datePublished |-> Str(<<"Jan 5">>),
     author |-> [t |-> "list", name |-> None,
                 entries |-> <<[obj |-> FALSE, name |-> None]>>]]

\* "author": [{"name": "A Writer"}, "B Writer"]
ObjectAuthorsItem ==
    [obj |-> TRUE, type |-> "Article", headline |-> Str(<<"Other Story">>),
     datePublished |-> Str(<<"2024-01-05">>),
     author |-> [t |-> "list", name |-> None,
                 entries |-> <<[obj |-> TRUE, name |-> Str(<<"A Writer">>)],
                               [obj |-> FALSE, name |-> None]>>]]

\* "headline": "", "datePublished": "", an author object without a name
EmptyFieldsItem ==
    [obj |-> TRUE, type |-> "NewsArticle", headline |-> Str(<<>>),
     datePublished |-> Str(<<>>),
     author |-> [t |-> "obj", name |-> None, entries |-> <<>>]]

WebPageItem ==
    [obj |-> TRUE, type |-> "WebPage", headline |-> Str(<<"Site">>),
     datePublished |-> None, author |-> NoAuthor]

\* an item that is no object: a string, a number
ScalarItem ==
    [obj |-> FALSE, type |-> "", headline |-> None, datePublished |-> None,
     author |-> NoAuthor]

LdBlocks ==
    { [valid |-> FALSE, items |-> <<>>],
      [valid |-> TRUE, items |-> <<NewsItem>>],
      [valid |-> TRUE, items |-> <<ArticleItem>>],
      [valid |-> TRUE, items |-> <<StringAuthorsItem>>],
      [valid |-> TRUE, items |-> <<EmptyFieldsItem>>],
      [valid |-> TRUE, items |-> <<ScalarItem, ObjectAuthorsItem>>],
      [valid |-> TRUE, items |-> <<WebPageItem, ObjectAuthorsItem>>] }

\* the meta[property="og:title"] tags: none, one with content, one whose
\* content is empty
OgTitles == {<<>>, <<Str(<<"OG Title">>)>>, <<Str(<<>>)>>}

\* the meta[property="article:published_time"] tags: none, one with a
\* date, one with a text that is no date, one whose content is empty
PublishedTimes ==
    { <<>>,
      <<Str(<<"2024-01-05", " ", "12:00", "-05:00">>)>>,
      <<Str(<<"Jan 5">>)>>,
      <<Str(<<>>)>> }

NoMatch == [found |-> FALSE, texts |-> <<>>]

\* select_one of the five selectors of lines 320-326
BodyMatches ==
    { <<NoMatch, NoMatch, NoMatch, NoMatch, NoMatch>>,
      <<[found |-> TRUE,
         texts |-> << <<"First">>, <<>>,
                      <<"Editor", "'", "s Note", ":", "updated">>,
                      <<"Second">> >>],
        NoMatch, NoMatch, NoMatch, NoMatch>>,
      <<NoMatch, NoMatch, NoMatch,
        [found |-> TRUE,
         texts |-> << <<"EDITOR", "U+2019", "S NOTE">>,
                      <<"Read the", "Editor", "'", "s Note">> >>],
        [found |-> TRUE, texts |-> << <<"Elsewhere">> >>]>>,
      <<NoMatch,
        [found |-> TRUE,
         texts |-> << <<"editor", "U+2019", "s note", ":", "updated">>,
                      <<"Second">>,
                      <<"Note", ":", "updated">>,
                      <<"First">>,
                      <<"Second">> >>],
        NoMatch, NoMatch, NoMatch>> }

Unset == [set |-> FALSE, parts |-> <<>>]

RelRef(path) == [kind |-> "rel", host |-> <<>>, path |-> path, query |-> <<>>]

Part(url, desc) == [blank |-> FALSE, url |-> url, desc |-> desc]

\* srcset="a_640x360.jpg 640w, a_1280x720.jpg 1280w"
ScenarioSrcset ==
    [set |-> TRUE,
     parts |->
       <<Part(RelRef(<<"a", "_", "6", "4", "0", "x", "3", "6", "0", ".",
                       "jpg">>),
              << <<"6", "4", "0", "w">> >>),
         Part(RelRef(<<"a", "_", "1", "2", "8", "0", "x", "7", "2", "0", ".",
                       "jpg">>),
              << <<"1", "2", "8", "0", "w">> >>)>>]

NoSrc == [has |-> FALSE, ref |-> RelRef(<<>>)]

ScenarioFigure(caption, alt) ==
    [caption |-> caption,
     img |-> [has |-> TRUE, alt |-> alt, srcset |-> ScenarioSrcset,
              dataSrcset |-> Unset, src |-> NoSrc],
     sources |-> <<>>]

BPath == <<"/", "i", "/", "b", ".", "jpg">>

\* a captioned figure outside any wrapper: a source with data-srcset (a
\* density descriptor, a signed width, a blank part), an img with src
CaptionedFigure ==
    [caption |-> Str(<<"A caption">>),
     img |-> [has |-> TRUE, alt |-> Str(<<>>), srcset |-> Unset,
              dataSrcset |-> Unset,
              src |-> [has |-> TRUE,
                       ref |-> [kind |-> "abs", host |-> <<"a.espncdn.com">>,
                                path |-> BPath,
                                query |-> <<[k |-> "w",
                                             v |-> <<"a", "u", "t", "o">>]>>]]],
     sources |->
       <<[srcset |-> Unset,
          dataSrcset |->
            [set |-> TRUE,
             parts |->
               <<Part([kind |-> "protorel", host |-> <<"a.espncdn.com">>,
                       path |-> BPath, query |-> <<>>], << <<"2", "x">> >>),
                 [blank |-> TRUE, url |-> RelRef(<<>>), desc |-> <<>>],
                 Part([kind |-> "abs", host |-> <<"a.espncdn.com">>,
                       path |-> BPath,
                       query |-> <<[k |-> "w",
                                    v |-> <<"a", "u", "t", "o">>]>>],
                      << <<"-", "5", "w">> >>)>>]]>>]

\* an inline photo whose img src is //[cdn/b.jpg: no URL urlsplit accepts
BrokenFigure ==
    [caption |-> Str(<<>>),
     img |-> [has |-> TRUE, alt |-> None, srcset |-> Unset,
              dataSrcset |-> Unset,
              src |-> [has |-> TRUE,
                       ref |-> [kind |-> "protorel", host |-> <<"[", "cdn">>,
                                path |-> BPath, query |-> <<>>]]],
     sources |-> <<>>]

\* one picture three times: in a source with a density descriptor, in the
\* srcset of the img with a width, and as the src of the img
RepeatedFigure ==
    LET b == [kind |-> "abs", host |-> <<"a.espncdn.com">>, path |-> BPath,
              query |-> <<>>]
    IN  [caption |-> Str(<<"Cap">>),
         img |-> [has |-> TRUE, alt |-> Str(<<"Alt">>),
                  srcset |-> [set |-> TRUE,
                              parts |->
                                <<Part(b, << <<"6", "4", "0", "w">> >>)>>],
                  dataSrcset |-> Unset,
                  src |-> [has |-> TRUE, ref |-> b]],
         sources |->
           <<[srcset |-> [set |-> TRUE,
                          parts |-> <<Part(b, << <<"2", "x">> >>)>>],
              dataSrcset |-> Unset]>>]

\* a figure without img: one source with a one-entry srcset
SourcesOnlyFigure ==
    [caption |-> None,
     img |-> [has |-> FALSE, alt |-> None, srcset |-> Unset,
              dataSrcset |-> Unset, src |-> NoSrc],
     sources |->
       <<[srcset |-> [set |-> TRUE,
                      parts |->
                        <<Part(RelRef(<<"c", ".", "jpg">>),
                               << <<"3", "2", "0", "w">> >>)>>],
          dataSrcset |-> Unset]>>]

AsideOf(figs) == [aside |-> TRUE, figs |-> figs]

BareFigure(fig) == [aside |-> FALSE, figs |-> <<fig>>]

\* the inline-photo wrappers and the figures outside them, in page order
PageBlocks ==
    { <<>>,
      <<AsideOf(<<ScenarioFigure(None, None)>>)>>,
      <<AsideOf(<<ScenarioFigure(Str(<<"Cap">>), Str(<<"Alt">>)),
                  CaptionedFigure>>)>>,
      <<AsideOf(<<ScenarioFigure(None, None)>>),
        AsideOf(<<ScenarioFigure(Str(<<"Cap">>), None)>>)>>,
      <<AsideOf(<<>>)>>,
      <<AsideOf(<<>>), BareFigure(CaptionedFigure)>>,
      <<BareFigure(CaptionedFigure)>>,
      <<BareFigure(CaptionedFigure), AsideOf(<<ScenarioFigure(None, None)>>)>>,
      <<AsideOf(<<BrokenFigure>>)>>,
      <<AsideOf(<<RepeatedFigure>>)>>,
      <<AsideOf(<<>>), AsideOf(<<SourcesOnlyFigure>>)>>,
      <<BareFigure(ScenarioFigure(Str(<<"Cap">>), None)),
        BareFigure(BrokenFigure)>> }

PageUrl == [host |-> <<"www.espn.com">>, dir |-> <<"/", "nfl", "/">>]

SeqsUpTo(S, n) == UNION {[1..k -> S] : k \in 0..n}

InitParse ==
    /\ KeyIdle
    /\ DedupeIdle
    /\ FetchIdle
    /\ ScriptIdle
    /\ AmpIdle
    /\ SaveIdle
    /\ PipeIdle
    /\ \E ld \in SeqsUpTo(LdBlocks, MaxLdBlocks),
          bl \in PageBlocks,
          og \in OgTitles, pt \in PublishedTimes, bm \in BodyMatches :
          doc = [ld |-> ld, ogTitle |-> og, publishedTime |-> pt,
                 body |-> bm, blocks |-> bl, url |-> PageUrl]
    /\ pr_pc = "ready"
    /\ record = <<>>
    /\ imgs_raw = <<>>
    /\ strategy = ""
    /\ exc = ""

\* the headline and the date before normalisation: lines 304-318
HeadlineOf(d) ==
    OrElse(parse_jsonld(d.ld).headline, MetaContent(d.ogTitle))

DatePublishedOf(d) ==
    OrElse(parse_jsonld(d.ld).datePublished, MetaContent(d.publishedTime))

ParseFails(d) ==
    AuthorRaises(parse_jsonld(d.ld)) \/ ImagesRaise(d.blocks, d.url)

\* parse_espn_article_html(html, page_url) returns the record
ParseReturns ==
    /\ pr_pc = "ready"
    /\ ~ParseFails(doc)
    /\ LET found == get_article_images_with_fallback(doc.blocks, doc.url)
       IN  /\ record' =
                [title |-> HeadlineOf(doc),
                 author |-> AuthorOf(parse_jsonld(doc.ld)),
                 published |-> NormalizeDate(DatePublishedOf(doc)),
                 paragraphs |-> ParagraphsOf(doc.body),
                 images |-> dedupe_keep_largest(found.imgs)]
           /\ imgs_raw' = found.imgs
           /\ strategy' = found.label
    /\ pr_pc' = "done"
    /\ UNCHANGED <<doc, exc, keyVars, dedupeVars, fetchVars, scriptVars,
                   ampVars, saveVars, pipeVars>>

\* parse_espn_article_html raises: AttributeError at line 310, ValueError
\* from urljoin (line 116) or urlparse (line 196)
ParseRaises ==
    /\ pr_pc = "ready"
    /\ ParseFails(doc)
    /\ exc' = IF AuthorRaises(parse_jsonld(doc.ld)) THEN "AttributeError"
              ELSE "ValueError"
    /\ pr_pc' = "raised"
    /\ UNCHANGED <<doc, record, imgs_raw, strategy, keyVars, dedupeVars,
                   fetchVars, scriptVars, ampVars, saveVars, pipeVars>>

NextParse ==
    \/ ParseReturns
    \/ ParseRaises

SpecParse == InitParse /\ [][NextParse]_vars

(***************************************************************************)
(* Claims about parse_espn_article_html                                    *)
(***************************************************************************)
\* C9 as stated: parse_espn_article_html never raises, whatever the page
\* holds.
C9_ParseNeverRaises == pr_pc # "raised"

\* the page of the scenario of C10: one JSON-LD block, a NewsArticle with
\* the headline and the date of the scenario, and one inline-photo figure
\* whose img has the srcset of the scenario
IsScenarioPage(d) ==
    /\ d.ld = <<[valid |-> TRUE, items |-> <<NewsItem>>]>>
    /\ Len(d.blocks) = 1
    /\ d.blocks[1].aside
    /\ Len(d.blocks[1].figs) = 1
    /\ d.blocks[1].figs[1].img.has
    /\ d.blocks[1].figs[1].img.srcset = ScenarioSrcset
    /\ ~d.blocks[1].figs[1].img.src.has
    /\ d.blocks[1].figs[1].sources = <<>>

\* C10: for the page of the scenario parse_espn_article_html returns the
\* title "Team Wins Big", the date 2024-01-05T12:00:00+00:00 and exactly one
\* image, a_1280x720.jpg resolved against the page, with width 1280.
C10_EndToEndScenario ==
    (pr_pc # "ready" /\ IsScenarioPage(doc)) =>
        /\ pr_pc = "done"
        /\ record.title = Str(<<"Team Wins Big">>)
        /\ record.published
             = Str(<<"2024-01-05", "T", "12:00:00", "+00:00">>)
        /\ Len(record.images) = 1
        /\ record.images[1].src
             = [host |-> <<"www.espn.com">>,
                path |-> <<"/", "nfl", "/", "a", "_", "1", "2", "8", "0",
                           "x", "7", "2", "0", ".", "jpg">>,
                query |-> <<>>]
        /\ record.images[1].width = Width(1280)

\* the page of the scenario has been parsed
C10_Witness ==
    /\ pr_pc = "done"
    /\ IsScenarioPage(doc)
    /\ Len(record.images) = 1


\* the texts of the p and li elements of the body container, in document
\* order
BodyTexts(d) == select_first_element(d.body, 1).texts

\* the text begins with "editor's note" in any letter case, the apostrophe
\* straight or curly
BeginsWithEditorsNote(text) ==
    /\ Len(text) >= 3
    /\ text[1] \in {"Editor", "EDITOR", "editor"}
    /\ text[2] \in {"'", "U+2019"}
    /\ text[3] \in {"s Note", "S NOTE", "s note"}

\* the positions of the texts the record is to keep
KeptPositions(texts) ==
    {i \in 1..Len(texts) : texts[i] # <<>> /\ ~BeginsWithEditorsNote(texts[i])}

\* C11: the paragraphs of the record are the non-empty texts of the body
\* container that do not begin with "editor's note", each at the place its
\* document order gives it: the k-th kept text is the k-th paragraph.
C11_ParagraphsFilteredInOrder ==
    pr_pc = "done" =>
        LET texts == BodyTexts(doc)
            K     == KeptPositions(texts)
        IN  /\ Len(record.paragraphs) = Cardinality(K)
            /\ \A i \in K :
                 record.paragraphs[Cardinality({k \in K : k <= i})] = texts[i]

\* a body with five texts: a curly-apostrophe editor's note is dropped, the
\* same text after another leading word and a repeated text are kept
C11_Witness ==
    /\ pr_pc = "done"
    /\ Len(BodyTexts(doc)) = 5
    /\ BeginsWithEditorsNote(BodyTexts(doc)[1])
    /\ BodyTexts(doc)[1][2] = "U+2019"
    /\ Len(record.paragraphs) = 4


\* C12: the list returned by get_article_images_with_fallback is the
\* inline-photo strategy's list, labelled "inline + captioned", whenever that
\* list is not empty (nothing of the captioned-figure strategy is added to
\* it); else the captioned-figure strategy's list, labelled "captioned",
\* when that is not empty; else the empty list, labelled "none".  The label
\* is "none" exactly when the list is empty.
C12_FallbackStrategy ==
    pr_pc = "done" =>
        LET a == extract_inline_photo_images(doc.blocks, doc.url)
            b == extract_captioned_images(doc.blocks, doc.url)
        IN  /\ a # <<>> =>
                 imgs_raw = a /\ strategy = "inline + captioned"
            /\ (a = <<>> /\ b # <<>>) =>
                 imgs_raw = b /\ strategy = "captioned"
            /\ (a = <<>> /\ b = <<>>) =>
                 imgs_raw = <<>> /\ strategy = "none"
            /\ (strategy = "none") <=> (imgs_raw = <<>>)

\* both strategies find candidates, and the captioned-figure strategy finds
\* one that the inline-photo strategy does not: it is not returned
C12_Witness ==
    /\ pr_pc = "done"
    /\ strategy = "inline + captioned"
    /\ \E c \in Range(extract_captioned_images(doc.blocks, doc.url)) :
          c \notin Range(imgs_raw)

\* the inline-photo strategy finds nothing and the captioned figures are
\* returned
C12_WitnessCaptioned ==
    /\ pr_pc = "done"
    /\ strategy = "captioned"
    /\ imgs_raw # <<>>


(***************************************************************************)
(* C13: the order of the list dedupe_keep_largest returns                  *)
(***************************************************************************)
\* the position at which the key of a returned candidate first occurs in
\* the input
FirstSeen(c) == MinOf(KeyGroup(canonical_image_key(c.src)))

\* C13: the list dedupe_keep_largest returns is ordered by the position at
\* which each canonical key first occurs in the input, also when the
\* candidate kept for a key is a later one that replaced the first-seen
\* candidate of the key.
C13_OrderOfFirstSeenKey ==
    dd_pc = "done" =>
        \A i, j \in 1..Len(dd_out) :
            i < j => FirstSeen(dd_out[i]) < FirstSeen(dd_out[j])

\* the first returned candidate replaced the first-seen one of its key, and
\* it stood in the input after the first candidate of the second key
C13_Witness ==
    /\ dd_pc = "done"
    /\ Len(dd_out) = 2
    /\ dd_out[1].alt > FirstSeen(dd_out[1])
    /\ dd_out[1].alt > FirstSeen(dd_out[2])


(***************************************************************************)
(* C14: the JSON-LD item the record is taken from                          *)
(***************************************************************************)
RECURSIVE ItemsInOrder(_)
\* the items of the blocks that parse, in document order and in list order
ItemsInOrder(ld) ==
    IF ld = <<>> THEN <<>>
    ELSE (IF ld[1].valid THEN ld[1].items ELSE <<>>)
         \o ItemsInOrder(Tail(ld))

RECURSIVE FirstOfArticleType(_)
\* the first item whose @type is Article or NewsArticle ({} when none is)
FirstOfArticleType(items) ==
    IF items = <<>> THEN EmptyItem
    ELSE IF items[1].obj /\ items[1].type \in {"Article", "NewsArticle"}
         THEN items[1]
    ELSE FirstOfArticleType(Tail(items))

HasContent(metas) == metas # <<>> /\ metas[1].s # <<>>

\* the value is missing (None) or the empty string
MissingOrEmpty(v) == v.t = "none" \/ (v.t = "str" /\ v.s = <<>>)

\* C15: the title is the JSON-LD headline whenever that is present and not
\* empty; it is the content of the og:title meta tag exactly when the
\* headline is missing or empty and the tag has content; it is None when
\* neither gives a value.  The same holds of the date, with datePublished
\* and the article:published_time meta tag.  The author is None when the
\* JSON-LD item gives none.
C15_MetaFallback ==
    pr_pc = "done" =>
        LET ld == parse_jsonld(doc.ld)
        IN  /\ ~MissingOrEmpty(ld.headline) => record.title = ld.headline
            /\ (MissingOrEmpty(ld.headline) /\ HasContent(doc.ogTitle)) =>
                 record.title = doc.ogTitle[1]
            /\ (MissingOrEmpty(ld.headline) /\ ~HasContent(doc.ogTitle)) =>
                 record.title = None
            /\ ~MissingOrEmpty(ld.datePublished) =>
                 record.published = NormalizeDate(ld.datePublished)
            /\ (MissingOrEmpty(ld.datePublished)
                  /\ HasContent(doc.publishedTime)) =>
                 record.published = NormalizeDate(doc.publishedTime[1])
            /\ (MissingOrEmpty(ld.datePublished)
                  /\ ~HasContent(doc.publishedTime)) =>
                 record.published = None
            /\ ld.author.t = "none" => record.author = None

\* both sources give a title and a date, and the record has those of JSON-LD
C15_Witness ==
    /\ pr_pc = "done"
    /\ HasContent(doc.ogTitle)
    /\ HasContent(doc.publishedTime)
    /\ ~MissingOrEmpty(parse_jsonld(doc.ld).headline)
    /\ ~MissingOrEmpty(parse_jsonld(doc.ld).datePublished)
    /\ record.title # doc.ogTitle[1]
    /\ record.published # NormalizeDate(doc.publishedTime[1])

\* the headline and the date of the JSON-LD item are empty strings, and the
\* record has those of the meta tags
C15_WitnessFallback ==
    /\ pr_pc = "done"
    /\ parse_jsonld(doc.ld).headline = Str(<<>>)
    /\ parse_jsonld(doc.ld).datePublished = Str(<<>>)
    /\ record.title = Str(<<"OG Title">>)
    /\ record.published # None


(***************************************************************************)
(* C16: the published field                                                *)
(***************************************************************************)
\* the raw date strings that are ISO-8601 once Z is read as +00:00
IsoDates ==
    { <<"2024-01-05", "T", "12:00:00", "Z">>,
      <<"2024-01-05", " ", "12:00", "-05:00">>,
      <<"2024-01-05">> }

\* their ISO-8601 renderings
IsoRendering(d) ==
    CASE d = <<"2024-01-05", "T", "12:00:00", "Z">>
           -> <<"2024-01-05", "T", "12:00:00", "+00:00">>
      [] d = <<"2024-01-05", " ", "12:00", "-05:00">>
           -> <<"2024-01-05", "T", "12:00:00", "-05:00">>
      [] d = <<"2024-01-05">>
           -> <<"2024-01-05", "T", "00:00:00">>

\* C16: published is None exactly when no raw date was found; for a raw
\* date string that is ISO-8601 once a literal Z is read as +00:00,
\* published is its ISO-8601 rendering with that offset; for any other raw
\* date, published is the raw value unchanged; nothing is raised on the way.
C16_PublishedNormalised ==
    pr_pc = "done" =>
        LET raw == DatePublishedOf(doc)
        IN  /\ (record.published = None) <=> MissingOrEmpty(raw)
            /\ (raw.t = "str" /\ raw.s \in IsoDates) =>
                 record.published = Str(IsoRendering(raw.s))
            /\ (~MissingOrEmpty(raw) /\ ~(raw.t = "str" /\ raw.s \in IsoDates))
                 => record.published = raw

\* a raw date ending in Z has been rendered with the offset +00:00
C16_Witness ==
    /\ pr_pc = "done"
    /\ DatePublishedOf(doc) = Str(ScenarioDate)
    /\ record.published = Str(IsoRendering(ScenarioDate))
    /\ doc.publishedTime # <<>>

\* a raw date that is no ISO-8601 string is passed through
C16_WitnessRaw ==
    /\ pr_pc = "done"
    /\ DatePublishedOf(doc) = Str(<<"Jan 5">>)
    /\ record.published = Str(<<"Jan 5">>)


(***************************************************************************)
(* Claims about the retry loop of get_link                                 *)
(***************************************************************************)
\* C17 as stated: once get_link has met an HTTP error whose status is not
\* in the transport retry set (404, say), the call has raised: no further
\* request follows and no backoff sleep is made for it, so the sleeps of
\* the call are those of the attempts before it.
C17_HttpErrorRaisedAtOnce ==
    (err.kind = "http" /\ err.status \notin STATUS_FORCELIST) =>
        /\ f_pc = "raised"
        /\ Len(sleeps) = attempt

\* the session.get(amp_url) calls among the logged requests of the call:
\* each begins with the request that follows a request of the URL
AmpGets == {i \in 2..Len(log) :
               log[i].target = "amp" /\ log[i - 1].target = "url"}

\* C18 as stated: within one get_link call the AMP variant is requested at
\* most once.
C18_AmpAtMostOnce == Cardinality(AmpGets) <= 1

\* C19 as stated: every get_link call of the process uses the session the
\* first call built; a later call builds no session.
C19_OneSessionPerProcess == session \in {"none", "first"}


(***************************************************************************)
(* generate_comedic_script (src/app/llm_functions.py)                      *)
(*                                                                         *)
(* A paragraph is the sequence of its characters.  One step for the part   *)
(* of the function before the request to the language model, one for the   *)
(* answer or the failure of that request.                                  *)
(***************************************************************************)
MaxParagraphs == 3

ParagraphTexts ==
    { <<"a">>, <<"a", " ", "b", "c">>, <<"a", "b", "c", "d">> }

CharLimits == {2, 3}

ArticleTitles == {None, Str(<<"Team Wins Big">>)}

\* the article_data passed in: None, or a record of parse_espn_article_html
Articles ==
    {[has |-> FALSE, title |-> None, paragraphs |-> <<>>]}
    \cup {[has |-> TRUE, title |-> t, paragraphs |-> ps] :
            t \in ArticleTitles, ps \in SeqsUpTo(ParagraphTexts, MaxParagraphs)}

Min(a, b) == IF a <= b THEN a ELSE b

\* x[:n]
Take(x, n) == SubSeq(x, 1, Min(n, Len(x)))

\* x.rsplit(' ', 1)[0]
RSplitHead(x) ==
    LET sp == {i \in 1..Len(x) : x[i] = " "}
    IN  IF sp = {} THEN x ELSE SubSeq(x, 1, MaxOf(sp) - 1)

\* lines 76-81
ProcessParagraph(para, n) ==
    IF Len(para) > n THEN RSplitHead(Take(para, n)) \o <<"...">> ELSE para

ProcessParagraphs(ps, maxp, n) ==
    [i \in 1..Len(Take(ps, maxp)) |-> ProcessParagraph(ps[i], n)]

TooLongOffByOne(total, maxp) == total > maxp + 1

\* total_paragraphs > max_paragraphs
TooLong(total, maxp) == total > maxp

\* not article_data or not article_data.get('paragraphs')
NoContent(a) == ~a.has \/ a.paragraphs = <<>>

\* the text of title inside the f-string
TitleText(t) == IF t.t = "none" THEN <<"None">> ELSE t.s

\* what the language model answers when the answer validates
LlmScripts == {<<"generated script">>}

InitScript ==
    /\ KeyIdle
    /\ DedupeIdle
    /\ FetchIdle
    /\ ParseIdle
    /\ AmpIdle
    /\ SaveIdle
    /\ PipeIdle
    /\ gs_pc = "ready"
    /\ article_data \in Articles
    /\ max_paragraphs \in 0..MaxParagraphs
    /\ max_chars_per_paragraph \in CharLimits
    /\ processed_paragraphs = <<>>
    /\ llm_calls = 0
    /\ script_result = <<>>

\* lines 65-66
ScriptNoContent ==
    /\ gs_pc = "ready"
    /\ NoContent(article_data)
    /\ script_result' = [script |-> <<"No article content available">>,
                         is_too_long |-> FALSE]
    /\ gs_pc' = "done"
    /\ UNCHANGED <<article_data, max_paragraphs, max_chars_per_paragraph,
                   processed_paragraphs, llm_calls, keyVars, dedupeVars,
                   fetchVars, parseVars, ampVars, saveVars, pipeVars>>

\* lines 69-71
ScriptTooLong ==
    /\ gs_pc = "ready"
    /\ ~NoContent(article_data)
    /\ TooLong(Len(article_data.paragraphs), max_paragraphs)
    /\ script_result' = [script |-> <<>>, is_too_long |-> TRUE]
    /\ gs_pc' = "done"
    /\ UNCHANGED <<article_data, max_paragraphs, max_chars_per_paragraph,
                   processed_paragraphs, llm_calls, keyVars, dedupeVars,
                   fetchVars, parseVars, ampVars, saveVars, pipeVars>>

\* lines 73-109: the prompt is built and the request is sent
ScriptRequest ==
    /\ gs_pc = "ready"
    /\ ~NoContent(article_data)
    /\ ~TooLong(Len(article_data.paragraphs), max_paragraphs)
    /\ processed_paragraphs' =
         ProcessParagraphs(article_data.paragraphs, max_paragraphs,
                           max_chars_per_paragraph)
    /\ llm_calls' = llm_calls + 1
    /\ gs_pc' = "llm"
    /\ UNCHANGED <<article_data, max_paragraphs, max_chars_per_paragraph,
                   script_result, keyVars, dedupeVars, fetchVars, parseVars,
                   ampVars, saveVars, pipeVars>>

\* lines 128-134: the answer validates as a ComedicScriptResponse
LlmAnswers ==
    /\ gs_pc = "llm"
    /\ \E sc \in LlmScripts, tl \in BOOLEAN :
          script_result' = [script |-> sc, is_too_long |-> tl]
    /\ gs_pc' = "done"
    /\ UNCHANGED <<article_data, max_paragraphs, max_chars_per_paragraph,
                   processed_paragraphs, llm_calls, keyVars, dedupeVars,
                   fetchVars, parseVars, ampVars, saveVars, pipeVars>>

\* lines 136-141: the request or the validation raised
LlmFails ==
    /\ gs_pc = "llm"
    /\ script_result' =
         [script |-> <<"Breaking news: ">> \o TitleText(article_data.title)
                       \o <<" - Error Processing Article">>,
          is_too_long |-> FALSE]
    /\ gs_pc' = "done"
    /\ UNCHANGED <<article_data, max_paragraphs, max_chars_per_paragraph,
                   processed_paragraphs, llm_calls, keyVars, dedupeVars,
                   fetchVars, parseVars, ampVars, saveVars, pipeVars>>

NextScript ==
    \/ ScriptNoContent
    \/ ScriptTooLong
    \/ ScriptRequest
    \/ LlmAnswers
    \/ LlmFails

SpecScript == InitScript /\ [][NextScript]_vars

\* C20: for an article with more paragraphs than max_paragraphs, however
\* many more, generate_comedic_script makes no request to the language
\* model and what it returns is is_too_long = True with an empty script.
C20_RefusesTooLong ==
    (gs_pc # "idle" /\ article_data.has
       /\ Len(article_data.paragraphs) > max_paragraphs) =>
        /\ llm_calls = 0
        /\ gs_pc \in {"ready", "done"}
        /\ gs_pc = "done" =>
             script_result = [script |-> <<>>, is_too_long |-> TRUE]

\* an article two paragraphs over a limit of one has been refused
C20_Witness ==
    /\ gs_pc = "done"
    /\ max_paragraphs = 1
    /\ Len(article_data.paragraphs) = 3
    /\ script_result.is_too_long
    /\ llm_calls = 0


(***************************************************************************)
(* C22: the width of a candidate whose declared width is unknown           *)
(***************************************************************************)
\* the inference as the claim gives it: the digits of the w parameter when
\* it has digits, else the width of the first WIDTHxHEIGHT token of the URL
\* text, else 0
ClaimedInference(u) ==
    LET ws == QueryValues(u.query, "w")
        t  == UrlText(u)
        p  == SizeTokenSearch(t, 1)
    IN  IF ws # <<>> /\ FirstDigitRun(ws[1], 1) # <<>>
        THEN ToInt(FirstDigitRun(ws[1], 1))
        ELSE IF p > 0 THEN ToInt(SubSeq(t, p, p + DigitRun(t, p) - 1))
        ELSE 0

\* C22 as stated: for a candidate whose declared width is unknown, the
\* width dedupe_keep_largest gives it when it stores it is the digits of the
\* URL's w parameter when that has digits, else the width of the first
\* WIDTHxHEIGHT token of the URL text (also when a w parameter without
\* digits is there), else 0.
C22_InferredWidth ==
    \A j \in 1..Len(buckets) :
        LET c == dd_in[buckets[j].it.alt]
        IN  ~c.width.k =>
              buckets[j].it.width = Width(ClaimedInference(c.src))


\* C30: dedupe_keep_largest applied to the list it returned gives that list
\* again: the same candidates, with the same src and the same widths, in
\* the same order.
C30_Idempotent ==
    dd_pc = "done" => dedupe_keep_largest(dd_out) = dd_out

\* three candidates were reduced to two, the first of them a later one of
\* its key, with a width that was inferred from its URL
C30_Witness ==
    /\ dd_pc = "done"
    /\ Len(dd_in) = 3
    /\ Len(dd_out) = 2
    /\ dd_out[1].alt > 1
    /\ ~dd_in[dd_out[1].alt].width.k
    /\ dd_out[1].width.v > 0


(***************************************************************************)
(* C23: the body container                                                 *)
(***************************************************************************)
\* the selectors, by their place in the list, that match something
Matching(d) == {i \in 1..Len(d.body) : d.body[i].found}

\* the texts the record is to keep of a container, in their order
KeptTexts(texts) ==
    LET K == KeptPositions(texts)
    IN  [k \in 1..Cardinality(K) |->
           texts[CHOOSE i \in K : Cardinality({j \in K : j <= i}) = k]]

\* C23: the paragraphs of the record are those of the element matched by
\* the first selector of the list that matches anything, whatever the later
\* selectors match; when no selector matches, the paragraphs list is empty
\* (and the function has not raised for it).
C23_FirstMatchingSelector ==
    pr_pc = "done" =>
        IF Matching(doc) = {}
        THEN record.paragraphs = <<>>
        ELSE record.paragraphs = KeptTexts(doc.body[MinOf(Matching(doc))].texts)

\* the fourth and the fifth selector match, with different texts, and the
\* record has the paragraphs of the fourth
C23_Witness ==
    /\ pr_pc = "done"
    /\ Matching(doc) = {4, 5}
    /\ record.paragraphs = KeptTexts(doc.body[4].texts)
    /\ record.paragraphs # KeptTexts(doc.body[5].texts)

\* no selector matches and the record has no paragraphs
C23_WitnessNoContainer ==
    /\ pr_pc = "done"
    /\ Matching(doc) = {}
    /\ record.paragraphs = <<>>


(***************************************************************************)
(* C24: exact-URL duplicates within a strategy                             *)
(***************************************************************************)
\* the candidates of raw whose src no earlier candidate of raw has, in the
\* order of raw
FirstOccurrences(raw) ==
    LET F == {i \in 1..Len(raw) : \A j \in 1..(i - 1) : raw[j].src # raw[i].src}
    IN  [k \in 1..Cardinality(F) |->
           raw[CHOOSE i \in F : Cardinality({j \in F : j <= i}) = k]]

NoTwoWithSameSrc(list) ==
    \A i, j \in 1..Len(list) : i # j => list[i].src # list[j].src

\* C24: the list each image discovery strategy returns has no two
\* candidates with the same resolved src, and it is made of the first
\* occurrence of every src among the raw candidates of the strategy, in
\* their order, whatever the widths of the later occurrences.
C24_FirstOccurrencePerSrc ==
    pr_pc = "done" =>
        LET inl == extract_inline_photo_images(doc.blocks, doc.url)
            cap == extract_captioned_images(doc.blocks, doc.url)
        IN  /\ NoTwoWithSameSrc(inl)
            /\ inl = FirstOccurrences(InlineResults(doc.blocks, doc.url))
            /\ NoTwoWithSameSrc(cap)
            /\ cap = FirstOccurrences(
                        CaptionedResults(AllFigures(doc.blocks), doc.url))
            /\ NoTwoWithSameSrc(imgs_raw)

\* the raw candidates held one src three times, first with an unknown
\* width and then with a known one; the candidate returned is the first
C24_Witness ==
    /\ pr_pc = "done"
    /\ Len(InlineResults(doc.blocks, doc.url)) = 3
    /\ Len(imgs_raw) = 1
    /\ ~InlineResults(doc.blocks, doc.url)[1].width.k
    /\ InlineResults(doc.blocks, doc.url)[2].width.k
    /\ ~imgs_raw[1].width.k


(***************************************************************************)
(* C26: the raw candidates of the inline-photo strategy                    *)
(***************************************************************************)
\* the word is an integer followed by w
IsIntegerW(word) ==
    LET n   == SubSeq(word, 1, Len(word) - 1)
        abs == IF n # <<>> /\ n[1] \in {"-", "+"} THEN Tail(n) ELSE n
    IN  /\ Len(word) >= 2
        /\ word[Len(word)] = "w"
        /\ abs # <<>>
        /\ \A i \in 1..Len(abs) : abs[i] \in Digits

IntegerOfW(word) ==
    LET n == SubSeq(word, 1, Len(word) - 1)
    IN  IF n[1] = "-" THEN 0 - ToInt(Tail(n))
        ELSE IF n[1] = "+" THEN ToInt(Tail(n)) ELSE ToInt(n)

\* the (url, width) entries of the srcset of an element
SrcsetEntries(el) ==
    LET attr == IF el.srcset.set THEN el.srcset.parts
                ELSE IF el.dataSrcset.set THEN el.dataSrcset.parts ELSE <<>>
        E    == {i \in 1..Len(attr) : ~attr[i].blank}
    IN  [k \in 1..Cardinality(E) |->
           LET p == attr[CHOOSE i \in E : Cardinality({j \in E : j <= i}) = k]
           IN  [url |-> p.url,
                width |-> IF p.desc # <<>> /\ IsIntegerW(p.desc[1])
                          THEN Width(IntegerOfW(p.desc[1])) ELSE NoWidth]]

\* one candidate per entry, with the alt text and the caption of the figure
EntryCandidates(el, fig, base) ==
    LET es == SrcsetEntries(el)
    IN  [i \in 1..Len(es) |->
           [src |-> get_abs_url(es[i].url, base), width |-> es[i].width,
            alt |-> IF fig.img.has THEN fig.img.alt ELSE None,
            caption |-> fig.caption]]

RECURSIVE ClaimedOfSources(_, _, _)
ClaimedOfSources(sources, fig, base) ==
    IF sources = <<>> THEN <<>>
    ELSE EntryCandidates(sources[1], fig, base)
         \o ClaimedOfSources(Tail(sources), fig, base)

ClaimedOfFigure(fig, base) ==
    ClaimedOfSources(fig.sources, fig, base)
    \o (IF fig.img.has THEN EntryCandidates(fig.img, fig, base) ELSE <<>>)
    \o (IF fig.img.has /\ fig.img.src.has
        THEN <<[src |-> get_abs_url(fig.img.src.ref, base), width |-> NoWidth,
                alt |-> fig.img.alt, caption |-> fig.caption]>>
        ELSE <<>>)

RECURSIVE ClaimedInline(_, _)
ClaimedInline(blocks, base) ==
    IF blocks = <<>> THEN <<>>
    ELSE (IF blocks[1].aside /\ blocks[1].figs # <<>>
          THEN ClaimedOfFigure(blocks[1].figs[1], base) ELSE <<>>)
         \o ClaimedInline(Tail(blocks), base)

\* C26: before exact-URL deduplication the inline-photo strategy has, for
\* each wrapper with a figure and in this order, one candidate per srcset
\* entry of every source of the figure, one per srcset entry of its img and
\* one of unknown width for the src of the img; the width of an entry is
\* known only for a descriptor that is an integer followed by w; every
\* candidate has the caption of the figure and the alt text of the img; a
\* wrapper without a figure gives nothing.
C26_InlineRawCandidates ==
    pr_pc = "done" =>
        InlineResults(doc.blocks, doc.url) = ClaimedInline(doc.blocks, doc.url)

\* a figure with a source, an img with a srcset and a src gave three
\* candidates: the density descriptor without width, 640w with width 640,
\* the src without width, all with the caption and the alt text
C26_Witness ==
    /\ pr_pc = "done"
    /\ LET raw == InlineResults(doc.blocks, doc.url)
       IN  /\ Len(raw) = 3
           /\ raw[1].width = NoWidth
           /\ raw[2].width = Width(640)
           /\ raw[3].width = NoWidth
           /\ \A i \in 1..3 : raw[i].caption = Str(<<"Cap">>)
                                /\ raw[i].alt = Str(<<"Alt">>)

\* a wrapper without a figure gave nothing, the sources of a figure
\* without img gave a candidate
C26_WitnessNoImg ==
    /\ pr_pc = "done"
    /\ Len(doc.blocks) = 2
    /\ doc.blocks[1].figs = <<>>
    /\ ~doc.blocks[2].figs[1].img.has
    /\ Len(InlineResults(doc.blocks, doc.url)) = 1

----------------------------------------------------------------------------
\* get_link: termination and the requests a call may spend

\* the requests on the wire one session.get may send: the first one and the
\* transport-level retries
WirePerGet == RetryTotal + 1

\* the steps one attempt may take: its start, session.get(url) and
\* session.get(amp_url)
StepsPerAttempt == 2 * WirePerGet + 1

InCall == f_pc \in {"loop", "get"}

\* an upper bound of the steps the call in progress has left
Rank ==
    IF f_pc = "loop" THEN (retries - attempt + 1) * StepsPerAttempt
    ELSE IF f_pc = "get"
    THEN (retries - attempt) * StepsPerAttempt - tused
         + (IF target = "url" THEN 2 * WirePerGet ELSE WirePerGet)
    ELSE 0

CallBounded ==
    /\ attempt <= retries
    /\ gets <= 2 * (attempt + 1)
    /\ gets <= 2 * (retries + 1)
    /\ tused <= RetryTotal
    /\ Rank >= 0
    /\ f_pc = "returned" => result # NoResult
    /\ f_pc = "raised" => err # NoErr

\* except (...) as e: err = e, in every attempt that fails, the last one
\* included; an HTTPError carries the status of response
CatchesLast ==
    (f_pc = "get" /\ f_pc' \in {"loop", "raised"}) =>
        /\ err' # NoErr
        /\ err'.kind = "http" => err'.status = response'

\* C29: every get_link call terminates whatever the server and the network
\* do: each step of a call lowers a rank that is never negative, so the call
\* ends within (retries + 1) * StepsPerAttempt steps; it makes at most
\* 2 * (retries + 1) session.get calls, two per attempt at most, each with at
\* most RetryTotal transport-level retries; and it ends returning a response
\* or raising the last error caught.
C29_TerminatesWithinBudget ==
    [][/\ CallBounded'
       /\ InCall => Rank' < Rank
       /\ CatchesLast]_vars

\* a call that was blocked and failed on the AMP variant in every attempt,
\* with every transport-level retry spent on the last request
C29_Witness ==
    /\ f_pc = "raised"
    /\ retries = MaxRetries
    /\ gets = 2 * (retries + 1)
    /\ tused = RetryTotal
    /\ err = [kind |-> "http", status |-> 403]

----------------------------------------------------------------------------
\* add_amp

MaxParams == 2

AmpKeys == {"platform", "id", "tag"}

\* the values as the URL spells them; "" is a blank value (id=)
AmpRawValues == {"", "amp", "web", "a%20b"}

\* unquote of parse_qsl: percent escapes and + are decoded
Unquote(v) == IF v \in {"a%20b", "a+b"} THEN "a b" ELSE v

\* quote_plus of urlencode
QuotePlus(v) == IF v = "a b" THEN "a+b" ELSE v

RECURSIVE parse_qsl(_)
\* parse_qsl(query): keep_blank_values is False, a blank value is skipped
parse_qsl(q) ==
    IF q = <<>> THEN <<>>
    ELSE (IF q[1].v = "" THEN <<>>
          ELSE <<[k |-> q[1].k, v |-> Unquote(q[1].v)]>>)
         \o parse_qsl(Tail(q))

RECURSIVE DictIndex(_, _, _)
\* the position of key k in the dict d, 0 when d has no such key
DictIndex(d, k, i) ==
    IF i > Len(d) THEN 0
    ELSE IF d[i].k = k THEN i ELSE DictIndex(d, k, i + 1)

\* d[k] = v: a key the dict has keeps its position
DictSet(d, k, v) ==
    LET i == DictIndex(d, k, 1)
    IN  IF i = 0 THEN Append(d, [k |-> k, v |-> v])
        ELSE [d EXCEPT ![i] = [k |-> k, v |-> v]]

\* d.get(k): "" stands for None (no value of a dict of parse_qsl is blank)
DictGet(d, k) ==
    LET i == DictIndex(d, k, 1) IN IF i = 0 THEN "" ELSE d[i].v

RECURSIVE DictOf(_, _)
\* dict(pairs): a later pair of the same key replaces the value
DictOf(d, pairs) ==
    IF pairs = <<>> THEN d
    ELSE DictOf(DictSet(d, pairs[1].k, pairs[1].v), Tail(pairs))

\* urlencode(query)
urlencode(d) == [i \in DOMAIN d |-> [k |-> d[i].k, v |-> QuotePlus(d[i].v)]]

add_amp(url) ==
    LET query == DictOf(<<>>, parse_qsl(url.query))
        amp   == IF DictGet(query, "platform") # "amp"
                 THEN DictSet(query, "platform", "amp")
                 ELSE query
    IN  [url EXCEPT !.query = urlencode(amp)]

AmpUrls ==
    {[scheme |-> sc, host |-> "www.espn.com", path |-> "/nfl/story",
      query |-> q, fragment |-> fr] :
        sc \in {"https", "http"}, fr \in {"", "top"},
        q \in SeqsUpTo([k : AmpKeys, v : AmpRawValues], MaxParams)}

InitAmp ==
    /\ KeyIdle
    /\ DedupeIdle
    /\ FetchIdle
    /\ ParseIdle
    /\ ScriptIdle
    /\ SaveIdle
    /\ PipeIdle
    /\ amp_pc = "ready"
    /\ amp_url \in AmpUrls
    /\ amp_out = <<>>

AddAmp ==
    /\ amp_pc = "ready"
    /\ amp_out' = add_amp(amp_url)
    /\ amp_pc' = "done"
    /\ UNCHANGED <<amp_url, keyVars, dedupeVars, fetchVars, parseVars,
                   scriptVars, saveVars, pipeVars>>

NextAmp == AddAmp

SpecAmp == InitAmp /\ [][NextAmp]_vars

\* the parameters named k and meaning v that q holds
Occurrences(q, k, v) ==
    Cardinality({i \in DOMAIN q : q[i].k = k /\ Unquote(q[i].v) = v})

AmpValues == {Unquote(v) : v \in AmpRawValues}

\* C25: add_amp(u) has the scheme, host, path and fragment of u, exactly one
\* parameter named platform, whose value is amp, and every other parameter
\* of u as often as u has it, repeated keys and blank values included, with
\* its value unchanged.
C25_AmpKeepsOtherParameters ==
    amp_pc = "done" =>
        /\ amp_out.scheme = amp_url.scheme
        /\ amp_out.host = amp_url.host
        /\ amp_out.path = amp_url.path
        /\ amp_out.fragment = amp_url.fragment
        /\ \A v \in AmpValues :
             Occurrences(amp_out.query, "platform", v)
                 = (IF v = "amp" THEN 1 ELSE 0)
        /\ \A k \in AmpKeys \ {"platform"}, v \in AmpValues :
             Occurrences(amp_out.query, k, v)
                 = Occurrences(amp_url.query, k, v)

----------------------------------------------------------------------------
\* save_images

MaxSaved == 2

CdnBase == <<"https:", "/", "/", "a", ".espncdn", ".com">>

\* the tokens that begin with a dot
DotTokens == {".espncdn", ".com", ".png", ".jpg"}

\* the src of the candidates: a token is a run of characters, "/", "?" and
\* "#" are tokens of their own
SaveUrls ==
    {CdnBase \o <<"/", "photo", "/", "a", ".png">>,
     CdnBase \o <<"/", "photo", "/", "a", ".png", "?", "w=640">>,
     CdnBase \o <<"/", "combiner", "/", "i", "?", "img=", "/", "i", "/", "b",
                  ".jpg">>,
     CdnBase \o <<"/", "photo", "/", "a", ".png", "#", "main">>,
     CdnBase \o <<"/", "photo", "/", "c">>}

\* the position of the first token of s that is in T, Len(s) + 1 when none
FirstIn(s, T) ==
    LET at == {i \in 1..Len(s) : s[i] \in T}
    IN  IF at = {} THEN Len(s) + 1 ELSE MinOf(at)

\* the position of the last token of s that is in T, 0 when none
LastIn(s, T) ==
    LET at == {i \in 1..Len(s) : s[i] \in T}
    IN  IF at = {} THEN 0 ELSE MaxOf(at)

\* url.split("?")[0]
BeforeQuery(url) == SubSeq(url, 1, FirstIn(url, {"?"}) - 1)

\* os.path.splitext(p)[1]: from the last dot after the last "/", unless the
\* name begins there
splitext(p) ==
    LET sepIndex == LastIn(p, {"/"})
        dotIndex == LastIn(p, DotTokens)
    IN  IF dotIndex > sepIndex + 1 THEN SubSeq(p, dotIndex, Len(p)) ELSE <<>>

\* ext = os.path.splitext(url.split("?")[0])[1] or ".jpg"
ExtOf(url) ==
    LET ext == splitext(BeforeQuery(url))
    IN  IF ext = <<>> THEN <<".jpg">> ELSE ext

\* f"image_{i}{ext}"
FileName(i, ext) == [i |-> i, ext |-> ext]

\* a file an earlier run left in the folder
Leftover ==
    [name |-> FileName(1, <<".gif">>), from |-> <<>>, complete |-> TRUE]

InitSave ==
    /\ KeyIdle
    /\ DedupeIdle
    /\ FetchIdle
    /\ ParseIdle
    /\ ScriptIdle
    /\ AmpIdle
    /\ PipeIdle
    /\ sv_pc = "ready"
    /\ sv_images \in SeqsUpTo(SaveUrls, MaxSaved)
    /\ sv_i = 0
    /\ sv_files \in {{}, {Leftover}}
    /\ sv_outcomes = <<>>

\* shutil.rmtree(folder), os.makedirs(folder), build_session()
SaveBegin ==
    /\ sv_pc = "ready"
    /\ sv_files' = {}
    /\ sv_pc' = "loop"
    /\ UNCHANGED <<sv_images, sv_i, sv_outcomes, keyVars, dedupeVars,
                   fetchVars, parseVars, scriptVars, ampVars, pipeVars>>

\* what open(filename, "wb") and the writes leave in the folder
Written(i, complete) ==
    {f \in sv_files : f.name # FileName(i, ExtOf(sv_images[i]))}
    \cup {[name |-> FileName(i, ExtOf(sv_images[i])),
           from |-> sv_images[i], complete |-> complete]}

\* one pass of the loop body: the download succeeds and the file is written
SaveImage ==
    /\ sv_pc = "loop"
    /\ sv_i < Len(sv_images)
    /\ sv_files' = Written(sv_i + 1, TRUE)
    /\ sv_outcomes' = Append(sv_outcomes, "saved")
    /\ sv_i' = sv_i + 1
    /\ UNCHANGED <<sv_pc, sv_images, keyVars, dedupeVars, fetchVars,
                   parseVars, scriptVars, ampVars, pipeVars>>

\* s.get or raise_for_status raises: except Exception, no file is opened
SaveFails ==
    /\ sv_pc = "loop"
    /\ sv_i < Len(sv_images)
    /\ sv_outcomes' = Append(sv_outcomes, "failed")
    /\ sv_i' = sv_i + 1
    /\ UNCHANGED <<sv_pc, sv_images, sv_files, keyVars, dedupeVars, fetchVars,
                   parseVars, scriptVars, ampVars, pipeVars>>

\* iter_content raises after the file was opened: except Exception
SaveBreaksOff ==
    /\ sv_pc = "loop"
    /\ sv_i < Len(sv_images)
    /\ sv_files' = Written(sv_i + 1, FALSE)
    /\ sv_outcomes' = Append(sv_outcomes, "broken off")
    /\ sv_i' = sv_i + 1
    /\ UNCHANGED <<sv_pc, sv_images, keyVars, dedupeVars, fetchVars,
                   parseVars, scriptVars, ampVars, pipeVars>>

\* the loop is over
SaveReturn ==
    /\ sv_pc = "loop"
    /\ sv_i = Len(sv_images)
    /\ sv_pc' = "done"
    /\ UNCHANGED <<sv_images, sv_i, sv_files, sv_outcomes, keyVars,
                   dedupeVars, fetchVars, parseVars, scriptVars, ampVars,
                   pipeVars>>

NextSave ==
    \/ SaveBegin
    \/ SaveImage
    \/ SaveFails
    \/ SaveBreaksOff
    \/ SaveReturn

SpecSave == InitSave /\ [][NextSave]_vars

\* urlparse(url).path: from the first "/" after the host to the query or
\* the fragment
UrlPath(url) ==
    LET rest == SubSeq(url, Len(CdnBase) + 1, Len(url))
    IN  SubSeq(rest, 1, FirstIn(rest, {"?", "#"}) - 1)

\* the extension the claim gives the file: that of the path, or .jpg
ClaimedExt(url) ==
    LET ext == splitext(UrlPath(url))
    IN  IF ext = <<>> THEN <<".jpg">> ELSE ext

\* C21: save_images writes the i-th image of the list to image_i<ext>, ext
\* being the extension of the URL's path, or .jpg when the path has none; a
\* download that fails neither ends the loop nor changes the number of a
\* later file.
C21_NumberedFilesWithPathExtension ==
    sv_pc = "done" =>
        /\ Len(sv_outcomes) = Len(sv_images)
        /\ \A i \in 1..Len(sv_images) :
             sv_outcomes[i] = "saved" =>
                 [name |-> FileName(i, ClaimedExt(sv_images[i])),
                  from |-> sv_images[i], complete |-> TRUE] \in sv_files

----------------------------------------------------------------------------
\* run_full_pipeline, run_pipeline_with_upload
\* An article is named by its position i in top_headlines: headline i, the
\* script written from it, the audio spoken from that script and the files
\* f"{output_name}_article_{i}..." that generate_video writes.

MaxHeadlines == 3
MaxArticles == 3

\* [OUT_VIDEO, OUT_VIDEO_BURNED, OUT_VIDEO_SOFT] after generate_video
VideoFilesOf(i) ==
    <<[article |-> i, kind |-> "plain"], [article |-> i, kind |-> "burned"],
      [article |-> i, kind |-> "softsubs"]>>

\* results["scripts"].append({"headline": ..., "script": ..., ...})
ScriptEntry(i) == [headline |-> top_headlines[i], script |-> i]

\* top_headlines[:max_articles]
ArticlesToProcess == Min(max_articles, Len(top_headlines))

InitPipeline ==
    /\ KeyIdle
    /\ DedupeIdle
    /\ FetchIdle
    /\ ParseIdle
    /\ ScriptIdle
    /\ AmpIdle
    /\ SaveIdle
    /\ pl_pc = "ready"
    /\ top_headlines = <<>>
    /\ max_articles \in 0..MaxArticles
    /\ pl_i = 0
    /\ pl_results = NoResults
    /\ pl_return = ""
    /\ up_k = 0
    /\ upload_results = <<>>

\* get_nfl_links or select_top_three_headlines raises, or there is no news
\* item: except Exception, return None
PipelineFails ==
    /\ pl_pc = "ready"
    /\ pl_return' = "None"
    /\ pl_pc' = "returned"
    /\ UNCHANGED <<top_headlines, max_articles, pl_i, pl_results, up_k,
                   upload_results, keyVars, dedupeVars, fetchVars, parseVars,
                   scriptVars, ampVars, saveVars>>

\* steps 1 and 2: the headlines selected, there may be none
PipelineSelects ==
    /\ pl_pc = "ready"
    /\ \E n \in 0..MaxHeadlines : top_headlines' = [i \in 1..n |-> i]
    /\ pl_pc' = "loop"
    /\ UNCHANGED <<max_articles, pl_i, pl_results, pl_return, up_k,
                   upload_results, keyVars, dedupeVars, fetchVars, parseVars,
                   scriptVars, ampVars, saveVars>>

\* the exception of one article ends the pipeline: return None
ArticleFailsAborts ==
    /\ pl_pc = "loop"
    /\ pl_i < ArticlesToProcess
    /\ pl_i' = pl_i + 1
    /\ pl_return' = "None"
    /\ pl_pc' = "returned"
    /\ UNCHANGED <<top_headlines, max_articles, pl_results, up_k,
                   upload_results, keyVars, dedupeVars, fetchVars, parseVars,
                   scriptVars, ampVars, saveVars>>

\* one pass of the loop: get_link, parse_espn_article_html or
\* generate_comedic_script raises; except Exception, continue
ArticleFails ==
    /\ pl_pc = "loop"
    /\ pl_i < ArticlesToProcess
    /\ pl_i' = pl_i + 1
    /\ UNCHANGED <<pl_pc, top_headlines, max_articles, pl_results, pl_return,
                   up_k, upload_results, keyVars, dedupeVars, fetchVars,
                   parseVars, scriptVars, ampVars, saveVars>>

\* one pass of the loop: script_result['is_too_long'], continue
ArticleTooLong ==
    /\ pl_pc = "loop"
    /\ pl_i < ArticlesToProcess
    /\ pl_i' = pl_i + 1
    /\ UNCHANGED <<pl_pc, top_headlines, max_articles, pl_results, pl_return,
                   up_k, upload_results, keyVars, dedupeVars, fetchVars,
                   parseVars, scriptVars, ampVars, saveVars>>

\* one pass of the loop: the script is recorded, generate_audio_from_runpod
\* raises
AudioFails ==
    /\ pl_pc = "loop"
    /\ pl_i < ArticlesToProcess
    /\ pl_i' = pl_i + 1
    /\ pl_results' =
         [pl_results EXCEPT !.scripts = Append(@, ScriptEntry(pl_i + 1))]
    /\ UNCHANGED <<pl_pc, top_headlines, max_articles, pl_return, up_k,
                   upload_results, keyVars, dedupeVars, fetchVars, parseVars,
                   scriptVars, ampVars, saveVars>>

\* one pass of the loop: the script and the audio are recorded,
\* generate_video raises
VideoFails ==
    /\ pl_pc = "loop"
    /\ pl_i < ArticlesToProcess
    /\ pl_i' = pl_i + 1
    /\ pl_results' =
         [pl_results EXCEPT !.scripts = Append(@, ScriptEntry(pl_i + 1)),
                            !.audio_files = Append(@, pl_i + 1)]
    /\ UNCHANGED <<pl_pc, top_headlines, max_articles, pl_return, up_k,
                   upload_results, keyVars, dedupeVars, fetchVars, parseVars,
                   scriptVars, ampVars, saveVars>>

\* one pass of the loop in which every step succeeds
ArticleDone ==
    /\ pl_pc = "loop"
    /\ pl_i < ArticlesToProcess
    /\ pl_i' = pl_i + 1
    /\ pl_results' =
         [pl_results EXCEPT !.scripts = Append(@, ScriptEntry(pl_i + 1)),
                            !.audio_files = Append(@, pl_i + 1),
                            !.video_files = @ \o VideoFilesOf(pl_i + 1),
                            !.srt_files = Append(@, pl_i + 1)]
    /\ UNCHANGED <<pl_pc, top_headlines, max_articles, pl_return, up_k,
                   upload_results, keyVars, dedupeVars, fetchVars, parseVars,
                   scriptVars, ampVars, saveVars>>

\* return results
PipelineReturn ==
    /\ pl_pc = "loop"
    /\ pl_i = ArticlesToProcess
    /\ pl_return' = "results"
    /\ pl_pc' = "returned"
    /\ UNCHANGED <<top_headlines, max_articles, pl_i, pl_results, up_k,
                   upload_results, keyVars, dedupeVars, fetchVars, parseVars,
                   scriptVars, ampVars, saveVars>>

\* run_pipeline_with_upload: if not pipeline_results: return None
UploadSkipped ==
    /\ pl_pc = "returned"
    /\ pl_return = "None"
    /\ pl_pc' = "end"
    /\ UNCHANGED <<top_headlines, max_articles, pl_i, pl_results, pl_return,
                   up_k, upload_results, keyVars, dedupeVars, fetchVars,
                   parseVars, scriptVars, ampVars, saveVars>>

\* [video_files[i:i+3] for i in range(0, len(video_files), 3)][k - 1]
VideoChunk(k) ==
    SubSeq(pl_results.video_files, 3 * k - 2,
           Min(3 * k, Len(pl_results.video_files)))

\* len(range(0, len(video_files), 3))
VideoChunks == (Len(pl_results.video_files) + 2) \div 3

\* the pairs zip(scripts, chunks) gives
UploadPairs == Min(Len(pl_results.scripts), VideoChunks)

\* the first file of the chunk with 'burned' in its name
BurnedOf(chunk) ==
    chunk[MinOf({j \in 1..Len(chunk) : chunk[j].kind = "burned"})]

\* one pass of the upload loop: the k-th script with the k-th chunk; the
\* uploads succeed or not
UploadArticle ==
    /\ pl_pc = "returned"
    /\ pl_return = "results"
    /\ up_k < UploadPairs
    /\ up_k' = up_k + 1
    /\ LET k == up_k + 1
           script_data == pl_results.scripts[k]
           chunk == VideoChunk(k)
       IN  IF \E j \in 1..Len(chunk) : chunk[j].kind = "burned"
           THEN \E ok \in BOOLEAN :
                  upload_results' = Append(upload_results,
                      [article |-> k, headline |-> script_data.headline,
                       script |-> script_data.script,
                       video_file |-> BurnedOf(chunk), success |-> ok])
           ELSE upload_results' = upload_results
    /\ UNCHANGED <<pl_pc, top_headlines, max_articles, pl_i, pl_results,
                   pl_return, keyVars, dedupeVars, fetchVars, parseVars,
                   scriptVars, ampVars, saveVars>>

\* the upload loop is over
UploadReturn ==
    /\ pl_pc = "returned"
    /\ pl_return = "results"
    /\ up_k = UploadPairs
    /\ pl_pc' = "end"
    /\ UNCHANGED <<top_headlines, max_articles, pl_i, pl_results, pl_return,
                   up_k, upload_results, keyVars, dedupeVars, fetchVars,
                   parseVars, scriptVars, ampVars, saveVars>>

NextPipeline ==
    \/ PipelineFails
    \/ PipelineSelects
    \/ ArticleFails
    \/ ArticleTooLong
    \/ AudioFails
    \/ VideoFails
    \/ ArticleDone
    \/ PipelineReturn
    \/ UploadSkipped
    \/ UploadArticle
    \/ UploadReturn

SpecPipeline == InitPipeline /\ [][NextPipeline]_vars

\* C27: every video run_pipeline_with_upload uploads goes out with the
\* headline and the script of the article it was generated from, whatever
\* the steps of the articles did.
C27_UploadedWithOwnHeadline ==
    \A u \in Range(upload_results) :
        /\ u.headline = top_headlines[u.video_file.article]
        /\ u.script = u.video_file.article

=============================================================================
